---------------------------- MODULE Spec2Model ----------------------------
(***************************************************************************)
(* Verification model of the transcribe-jp subtitle pipeline: segment      *)
(* merging, splitting, hallucination filtering, timing realignment, text   *)
(* polishing and final cleanup.                                            *)
(*                                                                         *)
(* Conventions.                                                            *)
(*  - A text is a sequence of characters; a character is a short string    *)
(*    token: "a", "b", ... are content characters, "sp" is a whitespace    *)
(*    character, "comma" is the Japanese comma, "maru" the Japanese full   *)
(*    stop, "dots" the ellipsis, "lbr" an opening corner bracket.          *)
(*  - A time is an integer number of ticks; TicksPerTenth ticks are 0.1 s. *)
(*  - A segment is a record [start, end, text, words].                     *)
(*  - The ASR engine and the LLM provider are external: each call's        *)
(*    outcome is a nondeterministic choice over a small set of results.    *)
(***************************************************************************)
EXTENDS Integers, Sequences, FiniteSets, TLC

VARIABLES
    pc,        \* control position of the component being run
    config,    \* the configuration in force
    segments,  \* the segment sequence handed to the component
    call,      \* arguments of the pure function being applied
    ret        \* value returned by the function or stage

vars == <<pc, config, segments, call, ret>>

None == "None"

-----------------------------------------------------------------------------
(* Generic helpers                                                         *)

Min(a, b) == IF a <= b THEN a ELSE b
Max(a, b) == IF a >= b THEN a ELSE b

RECURSIVE Pow2(_)
Pow2(n) == IF n = 0 THEN 1 ELSE 2 * Pow2(n - 1)

\* longest segment sequence given to the timing realigner
MaxSegs == 3

\* time resolution: each overlap fix of the realigner may halve a span once
\* more, and there are at most 2 * MaxSegs fixes, so midpoints stay integral
TicksPerTenth == Pow2(2 * MaxSegs)

\* n tenths of a second, in ticks
Tenths(n) == n * TicksPerTenth

RECURSIVE SeqsUpTo(_, _)
\* all sequences over S of length 0..n
SeqsUpTo(S, n) ==
    IF n = 0 THEN {<<>>}
    ELSE LET shorter == SeqsUpTo(S, n - 1)
         IN shorter \cup {Append(s, x) : s \in {t \in shorter : Len(t) = n - 1}, x \in S}

\* text[i-1:j] of Python, empty when the range is
Slice(s, i, j) == IF i > j THEN <<>> ELSE SubSeq(s, i, j)

RECURSIVE Concat(_)
\* ''.join(list of texts)
Concat(ss) == IF ss = <<>> THEN <<>> ELSE Head(ss) \o Concat(Tail(ss))

Remove(text, class) == SelectSeq(text, LAMBDA c : c \notin class)

Whitespace == {"sp", "tab", "nl", "cr", "ff"}

RECURSIVE LStrip(_)
LStrip(text) ==
    IF text # <<>> /\ Head(text) \in Whitespace THEN LStrip(Tail(text)) ELSE text

RECURSIVE RStrip(_)
RStrip(text) ==
    IF text # <<>> /\ text[Len(text)] \in Whitespace
    THEN RStrip(Slice(text, 1, Len(text) - 1)) ELSE text

\* str.strip()
Strip(text) == RStrip(LStrip(text))

\* str.endswith(suffix)
EndsWith(text, suffix) ==
    /\ Len(suffix) <= Len(text)
    /\ Slice(text, Len(text) - Len(suffix) + 1, Len(text)) = suffix

-----------------------------------------------------------------------------
(* shared/text_utils.py: calculate_text_similarity                         *)

\* the class [、。！？\s] removed before comparison
SimilarityPunct == {"comma", "maru", "bang", "qmark"} \cup Whitespace

RECURSIVE MatchLen(_, _, _, _, _, _)
\* length of the common run of a[i..ahi-1] and b[j..bhi-1] starting at i, j
MatchLen(a, b, i, j, ahi, bhi) ==
    IF i < ahi /\ j < bhi /\ a[i] = b[j]
    THEN 1 + MatchLen(a, b, i + 1, j + 1, ahi, bhi)
    ELSE 0

\* difflib.SequenceMatcher.find_longest_match without junk: the longest block
\* of a[alo..ahi-1] and b[blo..bhi-1], earliest in a, then earliest in b
find_longest_match(a, b, alo, ahi, blo, bhi) ==
    LET cands == {<<i, j, MatchLen(a, b, i, j, ahi, bhi)>> :
                      i \in alo..(ahi - 1), j \in blo..(bhi - 1)}
        best  == CHOOSE m \in cands :
                    \A o \in cands :
                        \/ m[3] > o[3]
                        \/ m[3] = o[3] /\ m[1] < o[1]
                        \/ m[3] = o[3] /\ m[1] = o[1] /\ m[2] <= o[2]
    IN IF cands = {} THEN <<alo, blo, 0>> ELSE best

RECURSIVE MatchingSize(_, _, _, _, _, _)
\* sum of the sizes of SequenceMatcher.get_matching_blocks()
MatchingSize(a, b, alo, ahi, blo, bhi) ==
    IF alo >= ahi \/ blo >= bhi THEN 0
    ELSE LET m == find_longest_match(a, b, alo, ahi, blo, bhi)
         IN IF m[3] = 0 THEN 0
            ELSE m[3]
                 + MatchingSize(a, b, alo, m[1], blo, m[2])
                 + MatchingSize(a, b, m[1] + m[3], ahi, m[2] + m[3], bhi)

\* SequenceMatcher.ratio() = 2*M/T, kept as the fraction <<2*M, T>>
\* (difflib returns 1.0 when both sequences are empty)
SequenceMatcherRatio(a, b) ==
    IF Len(a) + Len(b) = 0 THEN <<1, 1>>
    ELSE <<2 * MatchingSize(a, b, 1, Len(a) + 1, 1, Len(b) + 1), Len(a) + Len(b)>>

\* the function without its empty-text guard
calculate_text_similarity_noguard(text1, text2) ==
    SequenceMatcherRatio(Remove(text1, SimilarityPunct), Remove(text2, SimilarityPunct))

\* a similarity is a fraction <<num, den>> with den > 0
calculate_text_similarity(text1, text2) ==
    LET clean1 == Remove(text1, SimilarityPunct)
        clean2 == Remove(text2, SimilarityPunct)
    IN IF clean1 = <<>> \/ clean2 = <<>> THEN <<0, 1>>
       ELSE SequenceMatcherRatio(clean1, clean2)

\* sim >= p/100 and sim = 1.0 on fractions
SimAtLeast(sim, pct) == 100 * sim[1] >= pct * sim[2]
SimIsOne(sim)  == sim[1] = sim[2]
SimIsZero(sim) == sim[1] = 0

-----------------------------------------------------------------------------
(* Specification SpecSimilarity: calculate_text_similarity applied to every *)
(* pair of bounded texts.                                                  *)

MaxTextLen == 3
TextAlphabet == {"a", "b", "maru", "lbr"}
Texts == SeqsUpTo(TextAlphabet, MaxTextLen)

NoConfig == [none |-> TRUE]

SimInit ==
    /\ pc = "similarity"
    /\ config = NoConfig
    /\ segments = <<>>
    /\ call \in [text1 : Texts, text2 : Texts]
    /\ ret = None

CallSimilarity ==
    /\ pc = "similarity"
    /\ ret' = calculate_text_similarity(call.text1, call.text2)
    /\ pc' = "similarity_returned"
    /\ UNCHANGED <<config, segments, call>>

SimNext == CallSimilarity

SpecSimilarity == SimInit /\ [][SimNext]_vars

\* C7 (as stated): calculate_text_similarity(x, x) = 1.0 for every non-empty
\* string x, and calculate_text_similarity("", y) = 0.0 for every y.
C7_AsStated ==
    pc = "similarity_returned" =>
        /\ (call.text1 = call.text2 /\ call.text1 # <<>>) => SimIsOne(ret)
        /\ call.text1 = <<>> => SimIsZero(ret)

\* C7 (amended): calculate_text_similarity(x, x) = 1.0 for every x that keeps
\* at least one character once 、。！？ and whitespace are removed, and
\* calculate_text_similarity("", y) = 0.0 for every y.
C7_SelfSimilarity ==
    pc = "similarity_returned" =>
        /\ (call.text1 = call.text2 /\ Remove(call.text1, SimilarityPunct) # <<>>)
               => SimIsOne(ret)
        /\ call.text1 = <<>> => SimIsZero(ret)

\* a text with content compared with itself, after the call
C7_Witness ==
    /\ pc = "similarity_returned"
    /\ call.text1 = <<"a", "maru", "b">>
    /\ call.text2 = call.text1
    /\ SimIsOne(ret)

-----------------------------------------------------------------------------
(* modules/stage4_segment_splitting/llm_splitter.py: content validation    *)

\* the class [、。？！\s…「」『』【】（）()[\]] removed by clean_for_matching
CleanForMatchingPunct ==
    {"comma", "maru", "qmark", "bang", "dots", "lbr", "rbr"} \cup Whitespace

clean_for_matching(text) == Remove(text, CleanForMatchingPunct)

\* the validation without its upper length limit
validate_llm_segments_nolong(original_text, llm_segments) ==
    LET joined_text    == Concat(llm_segments)
        similarity     == calculate_text_similarity(original_text, joined_text)
        original_clean == clean_for_matching(original_text)
        joined_clean   == clean_for_matching(joined_text)
    IN  IF llm_segments = <<>> THEN [valid |-> FALSE, reason |-> "no_segments"]
        ELSE IF Strip(joined_text) = <<>> THEN [valid |-> FALSE, reason |-> "empty"]
        ELSE IF 10 * Len(joined_clean) < 8 * Len(original_clean)
             THEN [valid |-> FALSE, reason |-> "too_short"]
        ELSE IF ~SimAtLeast(similarity, 85)
             THEN [valid |-> FALSE, reason |-> "similarity_low"]
        ELSE [valid |-> TRUE, reason |-> "validated"]

\* returns (is_valid, reason); len(x) < len(y) * 0.8 is 10*len(x) < 8*len(y)
validate_llm_segments(original_text, llm_segments) ==
    LET joined_text    == Concat(llm_segments)
        similarity     == calculate_text_similarity(original_text, joined_text)
        original_clean == clean_for_matching(original_text)
        joined_clean   == clean_for_matching(joined_text)
    IN  IF llm_segments = <<>> THEN [valid |-> FALSE, reason |-> "no_segments"]
        ELSE IF Strip(joined_text) = <<>> THEN [valid |-> FALSE, reason |-> "empty"]
        ELSE IF 10 * Len(joined_clean) < 8 * Len(original_clean)
             THEN [valid |-> FALSE, reason |-> "too_short"]
        ELSE IF 10 * Len(joined_clean) > 13 * Len(original_clean)
             THEN [valid |-> FALSE, reason |-> "too_long"]
        ELSE IF ~SimAtLeast(similarity, 85)
             THEN [valid |-> FALSE, reason |-> "similarity_low"]
        ELSE [valid |-> TRUE, reason |-> "validated"]

-----------------------------------------------------------------------------
(* Specification SpecValidate: validate_llm_segments applied to bounded    *)
(* original texts and LLM piece lists.                                     *)

MaxJoinedLen == 4
ValidateAlphabet == {"a", "b", "lbr"}
OriginalTexts == SeqsUpTo(ValidateAlphabet, MaxTextLen)
JoinedTexts == SeqsUpTo(ValidateAlphabet, MaxJoinedLen)

\* the LLM's answer: no piece, one piece, or a text cut in two pieces
LlmPieceLists ==
    {<<>>} \cup {<<t>> : t \in JoinedTexts}
           \cup UNION {{<<Slice(t, 1, k), Slice(t, k + 1, Len(t))>> : k \in 0..Len(t)} :
                        t \in JoinedTexts}

ValidateInit ==
    /\ pc = "validate"
    /\ config = NoConfig
    /\ segments = <<>>
    /\ call \in [original_text : OriginalTexts, llm_segments : LlmPieceLists]
    /\ ret = None

CallValidate ==
    /\ pc = "validate"
    /\ ret' = validate_llm_segments(call.original_text, call.llm_segments)
    /\ pc' = "validate_returned"
    /\ UNCHANGED <<config, segments, call>>

ValidateNext == CallValidate

SpecValidate == ValidateInit /\ [][ValidateNext]_vars

C6_Similarity == calculate_text_similarity(call.original_text, Concat(call.llm_segments))
C6_OriginalLen == Len(clean_for_matching(call.original_text))
C6_JoinedLen == Len(clean_for_matching(Concat(call.llm_segments)))
C6_RatioInRange ==
    /\ 10 * C6_JoinedLen >= 8 * C6_OriginalLen
    /\ 10 * C6_JoinedLen <= 13 * C6_OriginalLen

\* C6: LLM-split content validation is decided by (similarity, length ratio)
\* of the rejoined pieces against the original: it accepts exactly when the
\* similarity is >= 0.85 and the rejoined length is within [0.8, 1.3] of the
\* original length; a ratio outside [0.8, 1.3] is rejected whatever the
\* similarity.
C6_ValidationDecidedBySimilarityAndRatio ==
    pc = "validate_returned" =>
        /\ ret.valid <=> (SimAtLeast(C6_Similarity, 85) /\ C6_RatioInRange)
        /\ ~C6_RatioInRange => ~ret.valid

\* a rejoined text similar enough (6/7) but too long (2 against 1), rejected
C6_Witness ==
    /\ pc = "validate_returned"
    /\ SimAtLeast(C6_Similarity, 85)
    /\ 10 * C6_JoinedLen > 13 * C6_OriginalLen
    /\ ~ret.valid

-----------------------------------------------------------------------------
(* modules/stage3_segment_merging/processor.py: merge_incomplete_segments  *)

Seg(start, end, text, words) ==
    [start |-> start, end |-> end, text |-> text, words |-> words]

Word(word, start, end) == [word |-> word, start |-> start, end |-> end]

\* any(prev_text.endswith(marker) for marker in incomplete_markers)
is_incomplete(prev_text, cfg) ==
    \E marker \in cfg.incomplete_markers : EndsWith(prev_text, marker)

\* the merge decision with the gap compared by <= instead of <
should_merge_gap_inclusive(prev_seg, curr_seg, cfg) ==
    LET prev_text == Strip(prev_seg.text)
        curr_text == Strip(curr_seg.text)
    IN  /\ is_incomplete(prev_text, cfg)
        /\ curr_seg.start - prev_seg.end <= cfg.max_merge_gap
        /\ Len(prev_text) + Len(curr_text) <= cfg.max_line_length

\* should_merge of the loop body, for the adjacent input pair (prev, curr)
should_merge(prev_seg, curr_seg, cfg) ==
    LET prev_text       == Strip(prev_seg.text)
        curr_text       == Strip(curr_seg.text)
        time_gap        == curr_seg.start - prev_seg.end
        combined_length == Len(prev_text) + Len(curr_text)
    IN  /\ is_incomplete(prev_text, cfg)
        /\ time_gap < cfg.max_merge_gap
        /\ combined_length <= cfg.max_line_length

\* one finalized group: a single segment is passed on as it is, several are
\* joined into one
finalize_group(current_group) ==
    IF Len(current_group) = 1 THEN current_group[1]
    ELSE LET combined_text  == Concat([k \in 1..Len(current_group) |->
                                          Strip(current_group[k].text)])
             all_have_words == \A k \in 1..Len(current_group) :
                                   current_group[k].words # <<>>
             combined_words == Concat([k \in 1..Len(current_group) |->
                                          current_group[k].words])
         IN Seg(current_group[1].start,
                current_group[Len(current_group)].end,
                combined_text,
                IF all_have_words THEN combined_words ELSE <<>>)

RECURSIVE merge_groups_from(_, _, _, _, _)
\* the loop over i = 1..len(segments)-1 (here i = 2..Len): the groups of input
\* indices, current_group being the group still open
merge_groups_from(segs, cfg, i, current_group, groups) ==
    IF i > Len(segs) THEN Append(groups, current_group)
    ELSE IF should_merge(segs[i - 1], segs[i], cfg)
         THEN merge_groups_from(segs, cfg, i + 1, Append(current_group, i), groups)
         ELSE merge_groups_from(segs, cfg, i + 1, <<i>>, Append(groups, current_group))

merge_groups(segs, cfg) ==
    IF segs = <<>> THEN <<>> ELSE merge_groups_from(segs, cfg, 2, <<1>>, <<>>)

merge_incomplete_segments(segs, cfg) ==
    LET groups == merge_groups(segs, cfg)
    IN [g \in 1..Len(groups) |->
           finalize_group([k \in 1..Len(groups[g]) |-> segs[groups[g][k]]])]

-----------------------------------------------------------------------------
(* Specification SpecMerger: the Merger run on bounded ASR output, then    *)
(* run once more on its own output.                                        *)

MaxMergeSegs == 3

\* "te" stands for the incomplete marker て
MergeTexts ==
    { <<"a">>, <<"a", "te">>, <<"te", "a">>, <<"sp">>,
      <<"a", "te", "sp">>, <<"a", "a", "te">> }

\* gaps just below and at max_merge_gap
MergeGaps == {Tenths(4), Tenths(5)}

MergeConfigs ==
    [incomplete_markers : {{<<"te">>}},
     max_merge_gap      : {Tenths(5)},
     max_line_length    : {3, 4}]

\* segment k lasts one second and starts gaps[k-1] after segment k-1 ends
RECURSIVE MergeStart(_, _)
MergeStart(gaps, k) ==
    IF k = 1 THEN 0 ELSE MergeStart(gaps, k - 1) + Tenths(10) + gaps[k - 1]

MergeInput(texts, gaps, has_words) ==
    [k \in 1..Len(texts) |->
        LET start == MergeStart(gaps, k)
            end   == start + Tenths(10)
        IN Seg(start, end, texts[k],
               IF has_words[k] THEN <<Word(texts[k], start, end)>> ELSE <<>>)]

MergeInputs ==
    {<<>>} \cup
    UNION {{MergeInput(texts, gaps, has_words) :
                texts \in [1..n -> MergeTexts],
                gaps \in [1..(n - 1) -> MergeGaps],
                has_words \in [1..n -> BOOLEAN]} : n \in 1..MaxMergeSegs}

MergerInit ==
    /\ pc = "merge"
    /\ config \in MergeConfigs
    /\ segments \in MergeInputs
    /\ call = None
    /\ ret = None

\* stage 3 of run_pipeline: the merger on the ASR segments
Merge ==
    /\ pc = "merge"
    /\ call' = merge_incomplete_segments(segments, config)
    /\ pc' = "merged"
    /\ UNCHANGED <<config, segments, ret>>

\* the merger applied to its own output
MergeAgain ==
    /\ pc = "merged"
    /\ ret' = merge_incomplete_segments(call, config)
    /\ pc' = "merged_twice"
    /\ UNCHANGED <<config, segments, call>>

MergerNext == Merge \/ MergeAgain

SpecMerger == MergerInit /\ [][MergerNext]_vars

\* input segments i and i+1 ended up in the same output segment
C4_Joined(i) ==
    \E g \in 1..Len(merge_groups(segments, config)) :
        \E k \in 1..(Len(merge_groups(segments, config)[g]) - 1) :
            /\ merge_groups(segments, config)[g][k] = i
            /\ merge_groups(segments, config)[g][k + 1] = i + 1

\* C3: Merger is idempotent: merging the output of merge yields the same
\* sequence as merging once.
C3_MergeIdempotent ==
    pc = "merged_twice" => ret = call

\* C4: two adjacent segments are joined only if the earlier one's stripped
\* text ends with an incomplete marker, the gap between them is below
\* max_merge_gap and their combined length is within max_line_length; a pair
\* whose gap is not below max_merge_gap is never joined.
C4_MergeOnlyIfAllThree ==
    pc = "merged" =>
        \A i \in 1..(Len(segments) - 1) :
            /\ C4_Joined(i) =>
                 /\ \E m \in config.incomplete_markers :
                        EndsWith(Strip(segments[i].text), m)
                 /\ segments[i + 1].start - segments[i].end < config.max_merge_gap
                 /\ Len(Strip(segments[i].text)) + Len(Strip(segments[i + 1].text))
                        <= config.max_line_length
            /\ segments[i + 1].start - segments[i].end >= config.max_merge_gap
                 => ~C4_Joined(i)

\* a pair was joined, and another pair with a marker and a short combined
\* length was kept apart because its gap reaches max_merge_gap
C4_Witness ==
    /\ pc = "merged"
    /\ Len(segments) = 3
    /\ Len(call) = 2
    /\ C4_Joined(1)
    /\ ~C4_Joined(2)
    /\ EndsWith(Strip(segments[2].text), <<"te">>)
    /\ Len(Strip(segments[2].text)) + Len(Strip(segments[3].text)) <= config.max_line_length
    /\ segments[3].start - segments[2].end = config.max_merge_gap

-----------------------------------------------------------------------------
(* modules/stage4_segment_splitting/basic_splitter.py: rule-based Splitter *)

\* character classes of the splitter: "maru" 。 is a primary break, "comma" 、
\* a secondary break
CharPrimaryBreaks == {"maru", "qmark", "bang"}
CharSecondaryBreaks == {"comma", "ga", "wo", "ni", "de", "to", "no", "ha", "mo",
                        "te", "ta", "ne", "yo", "wa", "ba", "shi"}

\* first j in 0..limit-1 with i+j inside the text and text[i+j] in breaks, or -1
FirstBreak(text, i, limit, breaks) ==
    LET js == {j \in 0..(limit - 1) : i + j <= Len(text) /\ text[i + j] \in breaks}
    IN IF js = {} THEN -1 ELSE CHOOSE j \in js : \A k \in js : j <= k

RECURSIVE char_chunks(_, _, _, _, _)
\* the while loop of split_by_character_proportion; i is 1-based
char_chunks(text, max_length, i, current_chunk, chunks) ==
    IF i > Len(text)
    THEN IF current_chunk # <<>> THEN Append(chunks, current_chunk) ELSE chunks
    ELSE LET grown == Append(current_chunk, text[i])
         IN IF Len(grown) >= max_length
            THEN LET jp == FirstBreak(text, i, 5, CharPrimaryBreaks)
                     js == FirstBreak(text, i, 10, CharSecondaryBreaks)
                 IN IF jp >= 0
                    THEN char_chunks(text, max_length, i + jp + 1, <<>>,
                                     Append(chunks, grown \o Slice(text, i + 1, i + jp)))
                    ELSE IF js >= 0
                    THEN char_chunks(text, max_length, i + js + 1, <<>>,
                                     Append(chunks, grown \o Slice(text, i + 1, i + js)))
                    ELSE IF Len(grown) >= max_length + 5
                    THEN char_chunks(text, max_length, i + 1, <<>>, Append(chunks, grown))
                    ELSE char_chunks(text, max_length, i + 1, grown, chunks)
            ELSE char_chunks(text, max_length, i + 1, grown, chunks)

RECURSIVE SumLen(_, _)
\* number of characters of chunks[1..k]
SumLen(chunks, k) == IF k = 0 THEN 0 ELSE SumLen(chunks, k - 1) + Len(chunks[k])

\* the timing loop with current_time starting at 0 instead of start_time
proportional_timing_from_zero(chunks, total_chars, start_time, end_time) ==
    LET duration == end_time - start_time
        at(k)    == Min((duration * SumLen(chunks, k)) \div total_chars, end_time)
    IN [k \in 1..Len(chunks) |-> Seg(at(k - 1), at(k), chunks[k], <<>>)]

\* the timing loop: chunk k ends at min(current_time + duration *
\* (chunk_chars / total_chars), end_time) and chunk k+1 starts there; the
\* division is exact for the durations given, which are multiples of the
\* number of characters
proportional_timing(chunks, total_chars, start_time, end_time) ==
    LET duration == end_time - start_time
        at(k)    == IF k = 0 THEN start_time
                    ELSE Min(start_time + (duration * SumLen(chunks, k)) \div total_chars,
                             end_time)
    IN [k \in 1..Len(chunks) |-> Seg(at(k - 1), at(k), chunks[k], <<>>)]

split_by_character_proportion(text, start_time, end_time, max_length) ==
    proportional_timing(char_chunks(text, max_length, 1, <<>>, <<>>),
                        Len(text), start_time, end_time)

\* any(break_char in word for break_char in breaks)
HasBreak(word, breaks) == \E k \in 1..Len(word) : word[k] \in breaks

\* a primary break within the next 10 words
FoundPrimaryAhead(words, word_index, cfg) ==
    \E lookahead \in 1..Min(10, Len(words) - word_index) :
        HasBreak(words[word_index + lookahead].word, cfg.primary_breaks)

RECURSIVE word_chunks(_, _, _, _, _)
\* the while loop of split_segment_with_timing; word_index is 1-based
word_chunks(words, cfg, word_index, current_chunk_words, chunks) ==
    IF word_index > Len(words)
    THEN IF current_chunk_words # <<>> THEN Append(chunks, current_chunk_words)
         ELSE chunks
    ELSE LET grown == Append(current_chunk_words, words[word_index])
             current_chunk_text == Concat([k \in 1..Len(grown) |-> grown[k].word])
             word == words[word_index].word
         IN IF HasBreak(word, cfg.primary_breaks)
            THEN word_chunks(words, cfg, word_index + 1, <<>>, Append(chunks, grown))
            ELSE IF Len(current_chunk_text) >= cfg.max_line_length
                    /\ ~FoundPrimaryAhead(words, word_index, cfg)
                    /\ HasBreak(word, cfg.secondary_breaks)
            THEN word_chunks(words, cfg, word_index + 1, <<>>, Append(chunks, grown))
            ELSE word_chunks(words, cfg, word_index + 1, grown, chunks)

\* a chunk of words with the timing of its first and last word
chunk_segment(chunk_words) ==
    Seg(chunk_words[1].start,
        chunk_words[Len(chunk_words)].end,
        Concat([k \in 1..Len(chunk_words) |-> chunk_words[k].word]),
        chunk_words)

split_segment_with_timing(segment, cfg) ==
    LET text   == Strip(segment.text)
        chunks == word_chunks(segment.words, cfg, 1, <<>>, <<>>)
    IN  IF Len(text) <= cfg.max_line_length
        THEN <<Seg(segment.start, segment.end, text, segment.words)>>
        ELSE IF segment.words = <<>>
        THEN split_by_character_proportion(text, segment.start, segment.end,
                                           cfg.max_line_length)
        ELSE IF chunks = <<>>
        THEN <<Seg(segment.start, segment.end, text, <<>>)>>
        ELSE [k \in 1..Len(chunks) |-> chunk_segment(chunks[k])]

\* modules/stage4_segment_splitting/processor.py: split_segments with
\* enable_llm off
split_segments(segs, cfg) ==
    IF ~cfg.enable
    THEN [k \in 1..Len(segs) |->
            Seg(segs[k].start, segs[k].end, Strip(segs[k].text), segs[k].words)]
    ELSE Concat([k \in 1..Len(segs) |-> split_segment_with_timing(segs[k], cfg)])

(* The rule-based Splitter applied to one segment.  The segment either has no
   word timestamps, or its text is the concatenation of its words and the
   words tile its span (the ASR engine sets a segment's start and end from its
   first and last word). *)
MaxSplitLen == 7
MaxWords == 4
SplitAlphabet == {"a", "maru", "comma"}
SplitWordTexts == {<<"a">>, <<"a", "maru">>, <<"a", "comma">>, <<"sp", "a">>}
SplitStarts == {0, Tenths(10)}
SplitConfigs ==
    [enable           : BOOLEAN,
     max_line_length  : {2, 3},
     primary_breaks   : {{"maru", "qmark", "bang"}},
     secondary_breaks : {{"comma", "wa", "ne", "yo"}}]

\* a segment without words whose duration is one tenth per character
CharSegment(text, start) == Seg(start, start + Len(text) * Tenths(1), text, <<>>)

\* a segment whose words are the given texts, two tenths each, back to back
WordSegment(wtexts, start) ==
    Seg(start, start + Len(wtexts) * Tenths(2), Concat(wtexts),
        [k \in 1..Len(wtexts) |->
            Word(wtexts[k], start + (k - 1) * Tenths(2), start + k * Tenths(2))])

SplitInputs ==
    {CharSegment(t, s) : t \in SeqsUpTo(SplitAlphabet, MaxSplitLen) \ {<<>>},
                         s \in SplitStarts}
    \cup {WordSegment(w, s) : w \in SeqsUpTo(SplitWordTexts, MaxWords) \ {<<>>},
                              s \in SplitStarts}

SplitterInit ==
    /\ pc = "split"
    /\ config \in SplitConfigs
    /\ \E seg \in SplitInputs : segments = <<seg>>
    /\ call = None
    /\ ret = None

Split ==
    /\ pc = "split"
    /\ ret' = split_segments(segments, config)
    /\ pc' = "split_done"
    /\ UNCHANGED <<config, segments, call>>

SplitterNext == Split

SpecSplitter == SplitterInit /\ [][SplitterNext]_vars

\* C5: every chunk the rule-based Splitter produces lies inside the span of
\* the segment it was cut from: parent.start <= chunk.start and
\* chunk.end <= parent.end.
C5_ChunksInsideParent ==
    pc = "split_done" =>
        \A k \in 1..Len(ret) :
            /\ segments[1].start <= ret[k].start
            /\ ret[k].end <= segments[1].end

\* a segment that starts after zero, has no word timestamps and was cut into
\* several chunks by character proportion
C5_Witness ==
    /\ pc = "split_done"
    /\ segments[1].words = <<>>
    /\ segments[1].start > 0
    /\ Len(ret) >= 2
    /\ ret[Len(ret)].end = segments[1].end

\* a segment with word timestamps cut into several chunks at word boundaries
C5_WitnessWords ==
    /\ pc = "split_done"
    /\ segments[1].words # <<>>
    /\ Len(ret) >= 2

-----------------------------------------------------------------------------
(* modules/stage8_final_cleanup/stammer_filter.py: is_only_repetitive_stammer *)

\* the class [、。？！\s…]
StammerPunct == {"comma", "maru", "qmark", "bang", "dots"} \cup Whitespace

\* Counter(seq)[x]
CountOf(x, seq) == Cardinality({i \in 1..Len(seq) : seq[i] = x})

\* Counter(seq).most_common(1)[0][1], 0 for an empty sequence
MostCommonCount(seq) ==
    IF seq = <<>> THEN 0
    ELSE LET counts == {CountOf(seq[i], seq) : i \in 1..Len(seq)}
         IN CHOOSE n \in counts : \A m \in counts : m <= n

RECURSIVE SplitWords(_, _, _, _)
\* re.split on runs of the class, empty strings removed; i is 1-based
SplitWords(text, i, current, words) ==
    IF i > Len(text)
    THEN IF current # <<>> THEN Append(words, current) ELSE words
    ELSE IF text[i] \in StammerPunct
    THEN SplitWords(text, i + 1, <<>>,
                    IF current # <<>> THEN Append(words, current) ELSE words)
    ELSE SplitWords(text, i + 1, Append(current, text[i]), words)

MinStammerLength == 8
MinDominantCount == 50
MinWordTokens == 3
MinWordCount == 5

\* count / total >= 0.8
AtLeast80Percent(count, total) == 5 * count >= 4 * total

\* Method 1b with the length of the text tested in place of the count
single_char_dominates_span(clean) ==
    /\ Len(clean) >= MinDominantCount
    /\ AtLeast80Percent(MostCommonCount(clean), Len(clean))

\* Method 1b: one character appears 50+ times and represents 80%+
single_char_dominates(clean) ==
    /\ MostCommonCount(clean) >= MinDominantCount
    /\ AtLeast80Percent(MostCommonCount(clean), Len(clean))

is_only_repetitive_stammer(raw) ==
    LET text  == Strip(raw)
        clean == Remove(text, StammerPunct)
        unique_chars == Cardinality({clean[i] : i \in 1..Len(clean)})
        words == SplitWords(text, 1, <<>>, <<>>)
    IN  IF Len(text) = 0 THEN TRUE
        ELSE IF Len(clean) = 0 THEN TRUE
        ELSE IF unique_chars <= 2 /\ Len(clean) >= MinStammerLength THEN TRUE
        ELSE IF single_char_dominates(clean) THEN TRUE
        ELSE IF Len(words) < MinWordTokens THEN FALSE
        ELSE /\ MostCommonCount(words) >= MinWordCount
             /\ AtLeast80Percent(MostCommonCount(words), Len(words))

(* The stammer detector applied to one text.  The texts are runs of one
   character followed by other characters, lists of words separated by 、,
   and strings of ten distinct or ten identical characters. *)
MaxRepeat == 51
MaxOther == 13
MaxWordRepeat == 8
MaxOtherWords == 2
OtherPool == <<"k1", "k2", "k3", "k4", "k5", "k6", "k7", "k8", "k9", "k10">>
PunctPool == <<"comma", "maru", "qmark", "bang", "dots", "sp", "tab", "nl", "cr", "ff">>

Rep(x, n) == [k \in 1..n |-> x]

\* m characters cycling over the first d characters of the pool
Others(m, d) == [k \in 1..m |-> OtherPool[((k - 1) % d) + 1]]

CharMix(n, m, d) == Rep("u", n) \o Others(m, d)

RECURSIVE JoinWords(_)
\* "、".join(words)
JoinWords(words) ==
    IF words = <<>> THEN <<>>
    ELSE IF Len(words) = 1 THEN words[1]
    ELSE words[1] \o <<"comma">> \o JoinWords(Tail(words))

WordMix(k, j, d) ==
    JoinWords(Rep(<<"u", "k1">>, k) \o [i \in 1..j |-> <<"k2", OtherPool[((i - 1) % d) + 3]>>])

\* ten distinct characters of which p are punctuation or whitespace
PunctMix(p) == Slice(OtherPool, 1, Len(OtherPool) - p) \o Slice(PunctPool, 1, p)

StammerTexts ==
    {CharMix(n, m, d) : n \in 0..MaxRepeat, m \in 0..MaxOther, d \in 1..Len(OtherPool)}
    \cup {WordMix(k, j, d) : k \in 0..MaxWordRepeat, j \in 0..MaxOtherWords, d \in 1..2}
    \cup {PunctMix(p) : p \in 0..Len(PunctPool)}
    \cup {Rep(PunctPool[i], 10) : i \in 1..Len(PunctPool)}
    \cup {Rep(OtherPool[i], 10) : i \in 1..Len(OtherPool)}

StammerInit ==
    /\ pc = "stammer"
    /\ config = NoConfig
    /\ segments = <<>>
    /\ call \in StammerTexts
    /\ ret = None

CallStammer ==
    /\ pc = "stammer"
    /\ ret' = is_only_repetitive_stammer(call)
    /\ pc' = "stammer_returned"
    /\ UNCHANGED <<config, segments, call>>

StammerNext == CallStammer

SpecStammer == StammerInit /\ [][StammerNext]_vars

C8_Clean == Remove(call, StammerPunct)
C8_Tokens == SplitWords(call, 1, <<>>, <<>>)
C8_Distinct(seq) == Cardinality({seq[i] : i \in 1..Len(seq)})
C8_FewChars == C8_Distinct(C8_Clean) <= 2 /\ Len(C8_Clean) >= 8
C8_CharOfSpan ==
    /\ Len(C8_Clean) >= 50
    /\ \E i \in 1..Len(C8_Clean) : 5 * CountOf(C8_Clean[i], C8_Clean) >= 4 * Len(C8_Clean)
C8_WordOfTokens ==
    /\ Len(C8_Tokens) >= 5
    /\ \E i \in 1..Len(C8_Tokens) : 5 * CountOf(C8_Tokens[i], C8_Tokens) >= 4 * Len(C8_Tokens)
C8_CharFiftyTimes ==
    \E i \in 1..Len(C8_Clean) :
        /\ CountOf(C8_Clean[i], C8_Clean) >= 50
        /\ 5 * CountOf(C8_Clean[i], C8_Clean) >= 4 * Len(C8_Clean)
C8_WordFiveTimes ==
    \E i \in 1..Len(C8_Tokens) :
        /\ CountOf(C8_Tokens[i], C8_Tokens) >= 5
        /\ 5 * CountOf(C8_Tokens[i], C8_Tokens) >= 4 * Len(C8_Tokens)
C8_TenIdentical == Len(call) = 10 /\ C8_Distinct(call) = 1
C8_TenDistinct == Len(call) = 10 /\ C8_Distinct(call) = 10

\* C8 as stated: a text is classified pure stammer if, punctuation stripped,
\* it has at most 2 distinct characters and length >= 8, or one character is
\* >= 80% of a text of >= 50 characters, or one word is >= 80% of >= 5 word
\* tokens; ten identical characters are stammer and ten distinct ones are not.
C8_AsStated ==
    pc = "stammer_returned" =>
        /\ (C8_FewChars \/ C8_CharOfSpan \/ C8_WordOfTokens) => ret
        /\ C8_TenIdentical => ret
        /\ C8_TenDistinct => ~ret

\* C8: a text is classified pure stammer exactly when, punctuation and
\* whitespace stripped, it is empty, or has at most 2 distinct characters and
\* length >= 8, or one character occurs >= 50 times and is >= 80% of it, or
\* one word occurs >= 5 times and is >= 80% of the word tokens; ten identical
\* characters are stammer, and ten distinct characters that are not all
\* punctuation or whitespace are not.
C8_StammerConditions ==
    pc = "stammer_returned" =>
        /\ ret <=> (C8_Clean = <<>> \/ C8_FewChars \/ C8_CharFiftyTimes \/ C8_WordFiveTimes)
        /\ C8_TenIdentical => ret
        /\ (C8_TenDistinct /\ C8_Clean # <<>>) => ~ret

\* one character is four fifths of a text of fifty or more characters but
\* occurs fewer than fifty times, and the text is not classified stammer
C8_Witness ==
    /\ pc = "stammer_returned"
    /\ C8_CharOfSpan
    /\ ~C8_CharFiftyTimes
    /\ ~C8_FewChars
    /\ ~ret

-----------------------------------------------------------------------------
(* modules/stage5_hallucination_filtering: HallucinationFilter *)

(* The ASR engine is outside the program.  What a re-transcription of a time
   span yields is given by asr, a function from the start of the span to an
   outcome: the re-transcription failed (exception, audio not loaded, clip too
   short), found no speech, or found speech with a text and words. *)
AsrFailed == [kind |-> "failed"]
AsrNoSpeech == [kind |-> "no_speech"]
AsrSpeech(text) == [kind |-> "speech", text |-> text, words |-> <<Word(text, 0, Tenths(1))>>]

\* timing_validator.py: revalidate_segment_with_whisper; is_none stands for
\* the returned text being None (no speech)
revalidate_segment_with_whisper(outcome, original_text) ==
    IF outcome.kind = "failed"
    THEN [is_none |-> FALSE, text |-> original_text, words |-> <<>>]
    ELSE IF outcome.kind = "no_speech"
    THEN [is_none |-> TRUE, text |-> <<>>, words |-> <<>>]
    ELSE IF Strip(outcome.text) = <<>>
    THEN [is_none |-> TRUE, text |-> <<>>, words |-> <<>>]
    ELSE [is_none |-> FALSE, text |-> Strip(outcome.text), words |-> outcome.words]

\* the class [\s、。！？…\.,!?] of normalize_text
NormalizePunct ==
    Whitespace \cup {"comma", "maru", "bang", "qmark", "dots",
                     "adot", "acomma", "abang", "aqmark"}

normalize_text(text) == Strip(Remove(text, NormalizePunct))

\* pattern.search(text) for a pattern that is a literal phrase
Search(pattern, text) ==
    \E i \in 1..(Len(text) - Len(pattern) + 1) :
        Slice(text, i, i + Len(pattern) - 1) = pattern

RECURSIVE phrase_filter_from(_, _, _, _, _, _)
\* the loop of remove_hallucination_phrases over segs[i..]
phrase_filter_from(segs, cfg, has_model, asr, i, filtered) ==
    IF i > Len(segs) THEN filtered
    ELSE LET seg == segs[i]
             is_hallucination ==
                 \E p \in cfg.phrase_filter.patterns : Search(p, normalize_text(seg.text))
             new == revalidate_segment_with_whisper(asr[seg.start], seg.text)
             similarity == calculate_text_similarity(normalize_text(seg.text),
                                                     normalize_text(new.text))
         IN IF is_hallucination
            THEN IF cfg.phrase_filter.enable_revalidate /\ has_model
                 THEN IF new.is_none
                      THEN phrase_filter_from(segs, cfg, has_model, asr, i + 1, filtered)
                      ELSE IF SimAtLeast(similarity, 75)
                      THEN phrase_filter_from(segs, cfg, has_model, asr, i + 1, filtered)
                      ELSE \* the false positive is appended, and the loop body
                           \* then goes on to append the original segment as well
                           phrase_filter_from(segs, cfg, has_model, asr, i + 1,
                               filtered \o <<Seg(seg.start, seg.end, new.text, new.words),
                                             Seg(seg.start, seg.end, seg.text, seg.words)>>)
                 ELSE phrase_filter_from(segs, cfg, has_model, asr, i + 1, filtered)
            ELSE phrase_filter_from(segs, cfg, has_model, asr, i + 1, Append(filtered, seg))

\* phrase_filter.py: remove_hallucination_phrases (patterns are literal phrases)
remove_hallucination_phrases(segs, cfg, has_model, asr) ==
    IF ~cfg.phrase_filter.enable THEN segs
    ELSE IF cfg.phrase_filter.patterns = {} THEN segs
    ELSE phrase_filter_from(segs, cfg, has_model, asr, 1, <<>>)

\* the index after the run of segments from i whose stripped text is text_clean
RECURSIVE RunEnd(_, _, _)
RunEnd(segs, text_clean, j) ==
    IF j <= Len(segs) /\ Strip(segs[j].text) = text_clean
    THEN RunEnd(segs, text_clean, j + 1)
    ELSE j

RECURSIVE consecutive_duplicates_from(_, _, _)
consecutive_duplicates_from(segs, i, filtered) ==
    IF i > Len(segs) THEN filtered
    ELSE LET text_clean == Strip(segs[i].text)
             j == RunEnd(segs, text_clean, i + 1)
             \* whatever repeat_count is, the run becomes one segment that ends
             \* where the last one of the run ends
         IN consecutive_duplicates_from(segs, j,
                Append(filtered, Seg(segs[i].start, segs[j - 1].end, text_clean,
                                     segs[i].words)))

\* duplicate_filter.py: remove_consecutive_duplicates
remove_consecutive_duplicates(segs, cfg) ==
    IF segs = <<>> THEN segs ELSE consecutive_duplicates_from(segs, 1, <<>>)

RECURSIVE SameCharEnd_any_char(_, _, _)
\* the index after the run of segments from j that hold one character each
SameCharEnd_any_char(segs, text, j) ==
    IF j <= Len(segs) /\ Len(Strip(segs[j].text)) = 1
    THEN SameCharEnd_any_char(segs, text, j + 1)
    ELSE j

\* the index after the run of segments from j whose stripped text is the
\* single character text
RECURSIVE SameCharEnd(_, _, _)
SameCharEnd(segs, text, j) ==
    IF j <= Len(segs) /\ Strip(segs[j].text) = text
    THEN SameCharEnd(segs, text, j + 1)
    ELSE j

RECURSIVE single_char_from(_, _, _)
\* the loop of merge_single_char_segments over segs[i..]
single_char_from(segs, i, merged) ==
    IF i > Len(segs) THEN merged
    ELSE LET seg  == segs[i]
             text == Strip(seg.text)
             j    == SameCharEnd(segs, text, i + 1)
             \* the words of every segment looked at are added before it is
             \* compared: those of the run and those of the segment after it
             merged_words ==
                 seg.words \o Concat([k \in 1..(Min(j, Len(segs)) - i) |-> segs[i + k].words])
         IN IF Len(text) = 1
            THEN IF j - i > 1
                 THEN single_char_from(segs, j,
                          Append(merged, Seg(seg.start, segs[j - 1].end,
                                             JoinWords([k \in 1..(j - i) |-> text]),
                                             merged_words)))
                 ELSE single_char_from(segs, j,
                          Append(merged, Seg(seg.start, seg.end, text, seg.words)))
            ELSE single_char_from(segs, i + 1,
                     Append(merged, Seg(seg.start, seg.end, text, seg.words)))

\* duplicate_filter.py: merge_single_char_segments
merge_single_char_segments(segs) ==
    IF segs = <<>> THEN segs ELSE single_char_from(segs, 1, <<>>)

TicksPerSecond == Tenths(10)
SlowCharsPerSecond == 1
SlowMinChars == 5

RECURSIVE validate_timing_from(_, _, _, _, _, _)
\* the loop of validate_segment_timing over segs[i..]
validate_timing_from(segs, cfg, has_model, asr, i, validated) ==
    IF i > Len(segs) THEN validated
    ELSE LET seg == segs[i]
             duration == seg.end - seg.start
             \* chars_per_second = len(text) / duration, duration in ticks
             is_too_fast == Len(seg.text) * TicksPerSecond
                                > cfg.timing_validation.max_chars_per_second * duration
             is_too_slow == /\ Len(seg.text) * TicksPerSecond < SlowCharsPerSecond * duration
                            /\ Len(seg.text) > SlowMinChars
             new == revalidate_segment_with_whisper(asr[seg.start], seg.text)
         IN IF duration <= 0
            THEN validate_timing_from(segs, cfg, has_model, asr, i + 1, validated)
            ELSE IF is_too_fast \/ is_too_slow
            THEN IF cfg.timing_validation.enable_revalidate /\ has_model
                 THEN IF new.is_none
                      THEN validate_timing_from(segs, cfg, has_model, asr, i + 1, validated)
                      ELSE validate_timing_from(segs, cfg, has_model, asr, i + 1,
                               Append(validated, Seg(seg.start, seg.end, new.text, new.words)))
                 ELSE validate_timing_from(segs, cfg, has_model, asr, i + 1, validated)
            ELSE validate_timing_from(segs, cfg, has_model, asr, i + 1, Append(validated, seg))

\* timing_validator.py: validate_segment_timing
validate_segment_timing(segs, cfg, has_model, asr) ==
    validate_timing_from(segs, cfg, has_model, asr, 1, <<>>)

\* processor.py: filter_hallucinations with enable_llm off; the phrase filter
\* is called without the model and the media path
filter_hallucinations(segs, cfg, has_model, asr) ==
    LET step1 == IF cfg.phrase_filter.enable
                 THEN remove_hallucination_phrases(segs, cfg, FALSE, asr)
                 ELSE segs
        step2 == IF cfg.consecutive_duplicates.enable
                 THEN remove_consecutive_duplicates(step1, cfg)
                 ELSE step1
        step3 == merge_single_char_segments(step2)
    IN  IF cfg.timing_validation.enable
        THEN validate_segment_timing(step3, cfg, has_model, asr)
        ELSE step3

-----------------------------------------------------------------------------
(* modules/stage8_final_cleanup: FinalCleanup *)

RECURSIVE SplitOn(_, _, _, _, _)
\* re.split on runs of the class, empty strings removed; i is 1-based
SplitOn(text, class, i, current, words) ==
    IF i > Len(text)
    THEN IF current # <<>> THEN Append(words, current) ELSE words
    ELSE IF text[i] \in class
    THEN SplitOn(text, class, i + 1, <<>>,
                 IF current # <<>> THEN Append(words, current) ELSE words)
    ELSE SplitOn(text, class, i + 1, Append(current, text[i]), words)

\* the class [、\s]
CommaOrSpace == {"comma"} \cup Whitespace

\* the words of a segment text, split at commas and whitespace
SegmentWords(text) == SplitOn(Strip(text), CommaOrSpace, 1, <<>>, <<>>)

MaxShortWordLen == 3
ClusterMinTotal == 5

\* the segment is one unique short word, possibly repeated with commas
IsShortWordSegment(text) ==
    LET words == SegmentWords(text)
    IN /\ Cardinality({words[k] : k \in 1..Len(words)}) = 1
       /\ Len(words[1]) <= MaxShortWordLen

\* word_occurrences[word]: the start times of the segments that are this word
WordOccurrences(segs, word) ==
    {k \in 1..Len(segs) : IsShortWordSegment(segs[k].text) /\ SegmentWords(segs[k].text)[1] = word}

\* cluster_min or more occurrences start within the time window of one of them
HasCluster(segs, occurrences, cfg) ==
    \E i \in occurrences :
        Cardinality({j \in occurrences :
                        /\ segs[j].start >= segs[i].start
                        /\ segs[j].start <= segs[i].start + cfg.cluster_filter.time_window})
            >= cfg.cluster_filter.min_occurrences

\* the global threshold compared with > in place of >=
is_hallucination_word_strict(segs, word, cfg) ==
    LET occurrences == WordOccurrences(segs, word)
        total_count == Cardinality(occurrences)
    IN \/ cfg.global_word_filter.enable /\ total_count > cfg.global_word_filter.min_occurrences
       \/ /\ cfg.cluster_filter.enable
          /\ total_count >= ClusterMinTotal
          /\ HasCluster(segs, occurrences, cfg)

\* Pattern 1 (total count) or Pattern 2 (cluster) of detect_global_hallucination_words
is_hallucination_word(segs, word, cfg) ==
    LET occurrences == WordOccurrences(segs, word)
        total_count == Cardinality(occurrences)
    IN \/ cfg.global_word_filter.enable /\ total_count >= cfg.global_word_filter.min_occurrences
       \/ /\ cfg.cluster_filter.enable
          /\ total_count >= ClusterMinTotal
          /\ HasCluster(segs, occurrences, cfg)

detect_global_hallucination_words(segs, cfg) ==
    {word \in {SegmentWords(segs[k].text)[1] :
                  k \in {n \in 1..Len(segs) : IsShortWordSegment(segs[n].text)}} :
        is_hallucination_word(segs, word, cfg)}

\* the first vocalization option that appears in the text, else the first option
detect_vocalization_from_text(text, cfg) ==
    LET options == cfg.vocalization_replacement.vocalization_options
        hits    == {k \in 1..Len(options) : Search(options[k], Strip(text))}
    IN IF hits = {} THEN options[1]
       ELSE options[CHOOSE k \in hits : \A h \in hits : k <= h]

build_vocalization_replacement(base_voc, duration, cfg) ==
    LET replacement  == cfg.vocalization_replacement
        repeat_count == IF duration < replacement.short_duration_threshold
                        THEN replacement.short_repeat_count
                        ELSE IF duration < replacement.medium_duration_threshold
                        THEN replacement.medium_repeat_count
                        ELSE replacement.long_repeat_count
    IN JoinWords([k \in 1..repeat_count |-> base_voc])

filter_global_hallucination_words(segs, hallucination_words, cfg) ==
    IF hallucination_words = {} THEN segs
    ELSE [k \in 1..Len(segs) |->
            LET seg == segs[k]
                text_clean == Strip(seg.text)
                text_words == SegmentWords(seg.text)
            IN IF /\ text_words # <<>>
                  /\ Cardinality({text_words[n] : n \in 1..Len(text_words)}) = 1
                  /\ text_words[1] \in hallucination_words
               THEN Seg(seg.start, seg.end,
                        build_vocalization_replacement(
                            detect_vocalization_from_text(text_clean, cfg),
                            seg.end - seg.start, cfg),
                        seg.words)
               ELSE seg]

\* "." of a regular expression: any character but a newline
IsDot(c) == c # "nl"

RECURSIVE CountRepeats(_, _, _, _)
\* the number of further copies of the unit of length len at p found back to
\* back from position q on
CountRepeats(text, p, len, q) ==
    IF q + len - 1 <= Len(text) /\ Slice(text, q, q + len - 1) = Slice(text, p, p + len - 1)
    THEN 1 + CountRepeats(text, p, len, q + len)
    ELSE 0

\* the three ASCII dots appended to a condensed repetition
Ellipsis == <<"adot", "adot", "adot">>

RECURSIVE condense_pass(_, _, _, _, _)
\* re.sub of (.{len})(?:\1){min_repetitions - 1,} from position p on
condense_pass(text, len, cfg, p, out) ==
    IF p > Len(text) THEN out
    ELSE LET unit_ok == /\ p + len - 1 <= Len(text)
                        /\ \A k \in p..(p + len - 1) : IsDot(text[k])
             repeats == CountRepeats(text, p, len, p + len)
             word    == Slice(text, p, p + len - 1)
         IN IF unit_ok /\ repeats >= cfg.word_repetition.min_repetitions - 1
            THEN condense_pass(text, len, cfg, p + len * (repeats + 1),
                     out \o JoinWords([k \in 1..cfg.word_repetition.condensed_display_count
                                         |-> word]) \o Ellipsis)
            ELSE condense_pass(text, len, cfg, p + 1, Append(out, text[p]))

RECURSIVE condense_from(_, _, _)
\* the pattern lengths from pattern_len down to 1, each on the result of the last
condense_from(text, cfg, pattern_len) ==
    IF pattern_len = 0 THEN text
    ELSE condense_from(condense_pass(text, pattern_len, cfg, 1, <<>>), cfg, pattern_len - 1)

condense_word_repetitions(text, cfg) ==
    condense_from(text, cfg, cfg.word_repetition.max_pattern_length)

MinCharRun == 20

RECURSIVE RunOfChar(_, _)
\* the last position of the run of the character at p
RunOfChar(text, p) ==
    IF p < Len(text) /\ text[p + 1] = text[p] THEN RunOfChar(text, p + 1) ELSE p

Part(action, start, end, text) == [action |-> action, start |-> start, end |-> end, text |-> text]

RECURSIVE repetitive_parts_from(_, _, _, _, _, _)
\* re.finditer of (.)\1{19,} from position p on; last_end counts characters
\* and the time of a character offset is start_time + duration * (offset /
\* total_chars), the division taken as exact
repetitive_parts_from(text, start_time, end_time, p, last_end, parts) ==
    LET duration == end_time - start_time
        at(offset) == start_time + (duration * offset) \div Len(text)
        after_text == Slice(text, last_end + 1, Len(text))
    IN  IF p > Len(text)
        THEN IF last_end < Len(text) /\ Strip(after_text) # <<>>
             THEN Append(parts, Part("keep", at(last_end), end_time, after_text))
             ELSE parts
        ELSE LET q == RunOfChar(text, p)
                 before_text == Slice(text, last_end + 1, p - 1)
             IN IF IsDot(text[p]) /\ q - p + 1 >= MinCharRun
                THEN repetitive_parts_from(text, start_time, end_time, q + 1, q,
                         (IF p - 1 > last_end /\ Strip(before_text) # <<>>
                          THEN Append(parts, Part("keep", at(last_end), at(p - 1), before_text))
                          ELSE parts)
                         \o <<Part("replace", at(p - 1), at(q), Slice(text, p, q))>>)
                ELSE repetitive_parts_from(text, start_time, end_time, p + 1, last_end, parts)

split_and_filter_repetitive_portions(raw, start_time, end_time, cfg) ==
    LET text  == condense_word_repetitions(raw, cfg)
        parts == repetitive_parts_from(text, start_time, end_time, 1, 0, <<>>)
    IN IF parts = <<>> THEN <<Part("keep", start_time, end_time, text)>> ELSE parts

\* the segments a segment that is not pure stammer is turned into
stammer_parts(seg, cfg) ==
    LET parts == split_and_filter_repetitive_portions(seg.text, seg.start, seg.end, cfg)
    IN [k \in 1..Len(parts) |->
          IF parts[k].action = "keep"
          THEN IF parts[k].text = seg.text /\ seg.words # <<>>
               THEN Seg(parts[k].start, parts[k].end, parts[k].text, seg.words)
               ELSE Seg(parts[k].start, parts[k].end, parts[k].text, <<>>)
          ELSE IF cfg.vocalization_replacement.enable
          THEN Seg(parts[k].start, parts[k].end,
                   build_vocalization_replacement(
                       detect_vocalization_from_text(parts[k].text, cfg),
                       parts[k].end - parts[k].start, cfg),
                   <<>>)
          ELSE Seg(parts[k].start, parts[k].end,
                   condense_word_repetitions(parts[k].text, cfg), <<>>)]

filter_repetitive_stammer_segments(segs, cfg) ==
    Concat([k \in 1..Len(segs) |->
        LET seg == segs[k]
        IN IF is_only_repetitive_stammer(seg.text)
           THEN IF cfg.vocalization_replacement.enable
                THEN <<Seg(seg.start, seg.end,
                           build_vocalization_replacement(
                               detect_vocalization_from_text(seg.text, cfg),
                               seg.end - seg.start, cfg),
                           <<>>)>>
                ELSE <<Seg(seg.start, seg.end, condense_word_repetitions(seg.text, cfg),
                           seg.words)>>
           ELSE stammer_parts(seg, cfg)])

\* processor.py: apply_final_cleanup
apply_final_cleanup(segs, cfg) ==
    IF ~cfg.final_cleanup.enable THEN segs
    ELSE LET stammered == IF cfg.stammer_filter.enable
                          THEN filter_repetitive_stammer_segments(segs, cfg)
                          ELSE segs
             hallucination_words == detect_global_hallucination_words(stammered, cfg)
         IN IF cfg.global_word_filter.enable /\ hallucination_words # {}
            THEN filter_global_hallucination_words(stammered, hallucination_words, cfg)
            ELSE stammered

-----------------------------------------------------------------------------
(* HallucinationFilter followed by FinalCleanup on short token sequences *)

\* what a re-transcription can yield for each span that starts a segment
AsrOutcomes(texts) == {AsrFailed, AsrNoSpeech} \cup {AsrSpeech(t) : t \in texts}

AsrChoices(segs, cfg, texts) ==
    LET starts == {segs[k].start : k \in 1..Len(segs)}
    IN IF cfg.has_model THEN [starts -> AsrOutcomes(texts)]
       ELSE {[t \in starts |-> AsrFailed]}

\* the texts a re-transcription can yield
AsrTexts == {<<"boku">>, <<"go", "shi", "cho">>}

\* the pipeline runs the timing realigner only when it is enabled; text
\* polishing is disabled in the pipeline runs modelled here
AfterHallucinationFilter(cfg) ==
    IF cfg.timing_realignment.enable THEN "stage6" ELSE "stage8"

\* the timing realigner switched off
RealignOff == [enable |-> FALSE]

FilterHallucinations ==
    /\ pc = "stage5"
    /\ \E asr \in AsrChoices(segments, config, AsrTexts) :
          /\ segments' = filter_hallucinations(segments, config, config.has_model, asr)
          /\ ret' = [stage5 |-> segments']
    /\ pc' = AfterHallucinationFilter(config)
    /\ UNCHANGED <<config, call>>

FinalCleanup ==
    /\ pc = "stage8"
    /\ segments' = apply_final_cleanup(segments, config)
    /\ pc' = "done"
    /\ UNCHANGED <<config, call, ret>>

MaxScenarioSegs == 5
MaxGlobalMin == 4
Token == <<"boku">>
Greeting == <<"ko", "n", "ni", "chi", "ha">>
VocalizationOptions == <<<<"a">>, <<"n">>, <<"u", "n">>, <<"ha", "a">>, <<"fu", "u">>>>

\* segments of one second each, back to back from zero, without words
OneSecondSegments(texts) ==
    [k \in 1..Len(texts) |-> Seg((k - 1) * TicksPerSecond, k * TicksPerSecond, texts[k], <<>>)]

EndToEndInputs ==
    {OneSecondSegments(texts) : texts \in SeqsUpTo({Token, Greeting}, MaxScenarioSegs) \ {<<>>}}

DefaultVocalization ==
    [enable |-> FALSE, vocalization_options |-> VocalizationOptions,
     short_duration_threshold |-> Tenths(20), medium_duration_threshold |-> Tenths(50),
     short_repeat_count |-> 1, medium_repeat_count |-> 2, long_repeat_count |-> 3]

DefaultWordRepetition ==
    [max_pattern_length |-> 15, min_repetitions |-> 5, condensed_display_count |-> 3]

DefaultCluster == [enable |-> FALSE, time_window |-> 60 * TicksPerSecond, min_occurrences |-> 6]

EndToEndConfigs ==
    [has_model : {FALSE},
     phrase_filter : {[enable |-> FALSE, patterns |-> {}, enable_revalidate |-> FALSE]},
     consecutive_duplicates : [enable : BOOLEAN, min_occurrences : {2, 4}],
     timing_validation : {[enable |-> FALSE, max_chars_per_second |-> 20,
                           enable_revalidate |-> FALSE]},
     final_cleanup : {[enable |-> TRUE]},
     stammer_filter : {[enable |-> TRUE]},
     vocalization_replacement : {DefaultVocalization},
     word_repetition : {DefaultWordRepetition},
     global_word_filter : [enable : BOOLEAN, min_occurrences : 1..MaxGlobalMin],
     cluster_filter : {DefaultCluster},
     timing_realignment : {RealignOff}]

EndToEndInit ==
    /\ pc = "stage5"
    /\ config \in EndToEndConfigs
    /\ segments \in EndToEndInputs
    /\ call = segments
    /\ ret = None

EndToEndNext == FilterHallucinations \/ FinalCleanup

SpecEndToEnd == EndToEndInit /\ [][EndToEndNext]_vars

\* a run of three of the token, a different segment, the token once more
C9_Scenario == OneSecondSegments(<<Token, Token, Token, Greeting, Token>>)

C9_Collapsed ==
    <<Seg(0, 3 * TicksPerSecond, Token, <<>>),
      Seg(3 * TicksPerSecond, 4 * TicksPerSecond, Greeting, <<>>),
      Seg(4 * TicksPerSecond, 5 * TicksPerSecond, Token, <<>>)>>

\* the text is vocalization options joined by commas
C9_IsVocalization(text) ==
    LET words == SegmentWords(text)
    IN /\ words # <<>>
       /\ \A k \in 1..Len(words) :
             \E n \in 1..Len(VocalizationOptions) : words[k] = VocalizationOptions[n]

C9_Replaced ==
    /\ Len(segments) = 3
    /\ \A k \in 1..3 :
          /\ segments[k].start = C9_Collapsed[k].start
          /\ segments[k].end = C9_Collapsed[k].end
    /\ C9_IsVocalization(segments[1].text)
    /\ segments[2].text = Greeting
    /\ C9_IsVocalization(segments[3].text)

C9_Case ==
    /\ pc = "done"
    /\ call = C9_Scenario
    /\ config.consecutive_duplicates.enable
    /\ config.consecutive_duplicates.min_occurrences = 4
    /\ config.global_word_filter.enable

\* C9 as stated: with consecutive-duplicate min-occurrences 4 and global-word
\* min-occurrences <= 4, the run of three is collapsed into one segment over
\* the whole run, the final occurrence stays a segment of its own, and
\* FinalCleanup replaces both surviving token segments by vocalizations.
C9_AsStated ==
    (C9_Case /\ config.global_word_filter.min_occurrences <= 4) =>
        /\ ret.stage5 = C9_Collapsed
        /\ C9_Replaced

\* C9: the run of three is collapsed into one segment over the whole run and
\* the final occurrence stays a segment of its own, whatever the threshold;
\* FinalCleanup counts the two surviving token segments, so it replaces them
\* by vocalizations when global-word min-occurrences <= 2 and leaves the
\* collapsed sequence as it is when the threshold is 3 or 4.
C9_CollapseThenReplaceByCount ==
    C9_Case =>
        /\ ret.stage5 = C9_Collapsed
        /\ config.global_word_filter.min_occurrences <= 2 => C9_Replaced
        /\ config.global_word_filter.min_occurrences > 2 => segments = C9_Collapsed

\* the scenario with global threshold 2: both token segments were replaced
C9_Witness ==
    /\ C9_Case
    /\ config.global_word_filter.min_occurrences = 2
    /\ C9_Replaced

-----------------------------------------------------------------------------
(* HallucinationFilter with the timing validator re-transcribing segments *)

MaxFilterSegs == 3
Phrase == <<"go", "shi", "cho">>
FilterTexts == {Token, Greeting, Phrase}
\* a tenth of a second is too fast for every text here, a second is not
FilterDurations == {Tenths(1), Tenths(10)}

RECURSIVE BackToBack(_, _, _)
\* segments with the given texts and durations, back to back from start
BackToBack(texts, durations, start) ==
    IF texts = <<>> THEN <<>>
    ELSE <<Seg(start, start + durations[1], texts[1], <<>>)>>
         \o BackToBack(Tail(texts), Tail(durations), start + durations[1])

FilterInputs ==
    UNION {{BackToBack(texts, durations, 0) :
                texts \in [1..n -> FilterTexts], durations \in [1..n -> FilterDurations]} :
           n \in 1..MaxFilterSegs}

\* the timing validator off, on without re-transcription, on with it
FilterTimingModes ==
    {[has_model |-> FALSE, enable |-> FALSE, enable_revalidate |-> FALSE],
     [has_model |-> FALSE, enable |-> TRUE, enable_revalidate |-> FALSE],
     [has_model |-> TRUE, enable |-> TRUE, enable_revalidate |-> TRUE]}

FilterConfig(phrase, duplicates, timing) ==
    [has_model |-> timing.has_model,
     phrase_filter |-> [enable |-> phrase, patterns |-> {Phrase}, enable_revalidate |-> FALSE],
     consecutive_duplicates |-> [enable |-> duplicates, min_occurrences |-> 4],
     timing_validation |-> [enable |-> timing.enable, max_chars_per_second |-> 20,
                            enable_revalidate |-> timing.enable_revalidate],
     final_cleanup |-> [enable |-> TRUE],
     stammer_filter |-> [enable |-> TRUE],
     vocalization_replacement |-> DefaultVocalization,
     word_repetition |-> DefaultWordRepetition,
     global_word_filter |-> [enable |-> FALSE, min_occurrences |-> 12],
     cluster_filter |-> DefaultCluster,
     timing_realignment |-> RealignOff]

FilterConfigs ==
    {FilterConfig(phrase, duplicates, timing) :
        phrase \in BOOLEAN, duplicates \in BOOLEAN, timing \in FilterTimingModes}

HallucinationInit ==
    /\ pc = "stage5"
    /\ config \in FilterConfigs
    /\ segments \in FilterInputs
    /\ call = segments
    /\ ret = None

HallucinationNext == FilterHallucinations

SpecHallucination == HallucinationInit /\ [][HallucinationNext]_vars

\* the segments as they reach the timing validator
C2_BeforeValidation ==
    filter_hallucinations(call, [config EXCEPT !.timing_validation.enable = FALSE],
                          FALSE, [t \in {} |-> AsrFailed])

\* the timing validator's re-transcription changed the text of a segment
C2_TextChanged ==
    \E k \in 1..Len(segments) : \E j \in 1..Len(C2_BeforeValidation) :
        /\ segments[k].start = C2_BeforeValidation[j].start
        /\ segments[k].text # C2_BeforeValidation[j].text

\* C2: when the timing validator's re-transcription changed a segment's text,
\* HallucinationFilter returns no segment that matches a configured phrase
\* (phrase filter enabled) and no two adjacent segments with the same text
\* (duplicate filter enabled).
C2_RefilteredAfterValidation ==
    (pc = "stage8" /\ C2_TextChanged) =>
        /\ config.phrase_filter.enable =>
              \A k \in 1..Len(segments) :
                  ~\E p \in config.phrase_filter.patterns :
                       Search(p, normalize_text(segments[k].text))
        /\ config.consecutive_duplicates.enable =>
              \A k \in 1..(Len(segments) - 1) :
                  Strip(segments[k].text) # Strip(segments[k + 1].text)

-----------------------------------------------------------------------------
(* modules/stage7_text_polishing/processor.py: polish_segments_with_llm *)

(* The LLM provider is outside the program: generate either raises or returns
   a response.  A response is modelled by the list of polished texts it
   carries; a malformed one carries none. *)
LlmRaised == [kind |-> "raised", polished |-> <<>>]
LlmResponse(polished) == [kind |-> "response", polished |-> polished]

\* what the provider may answer when asked to polish texts: an exception, a
\* well-formed response with every text polished, one with a text missing,
\* one with a text too many, or a malformed response
LlmOutcomes(texts) ==
    {LlmRaised,
     LlmResponse([k \in 1..Len(texts) |-> Append(texts[k], "maru")]),
     LlmResponse([k \in 1..(Len(texts) - 1) |-> Append(texts[k], "maru")]),
     LlmResponse([k \in 1..(Len(texts) + 1) |-> <<"maru">>]),
     [kind |-> "malformed", polished |-> <<>>]}

\* a parse that accepts the keyword arguments and returns the texts of a
\* well-formed response
parse_json_response_accepting_context(response) ==
    [raised |-> response.kind # "response", polished |-> response.polished]

\* shared/llm_utils.py: parse_json_response takes the response text alone;
\* called with prompt= and context= it raises TypeError before it parses
parse_json_response_with_context(response) == [raised |-> TRUE, polished |-> <<>>]

\* the item that failed individually is emitted without its text
fallback_segment_blank(seg) == Seg(seg.start, seg.end, <<>>, seg.words)

\* polished_segments.append(seg): the item that failed individually
fallback_segment(seg) == seg

\* segments[i:i + batch_size], as the indices of the batch
BatchIndices(segs, i, batch_size) == i..Min(i + batch_size - 1, Len(segs))

\* batch_size <= 1 means one by one
EffectiveBatchSize(cfg) == IF cfg.batch_size <= 1 THEN 1 ELSE cfg.batch_size

\* how the creation of the LLM provider can end: a provider; the package is
\* missing (ImportError) or there is no API key (ValueError); the Ollama
\* server cannot be started or reached (RuntimeError)
ProviderOutcomes == {"created", "not_installed", "no_api_key", "unreachable"}

\* shared/llm_utils.py: create_llm_provider returns the provider, returns None
\* on ImportError and ValueError, and lets any other exception through
create_llm_provider(outcome) ==
    IF outcome = "created" THEN "provider"
    ELSE IF outcome \in {"not_installed", "no_api_key"} THEN "none"
    ELSE "raised"

\* polishing disabled: the segments are returned as they are; otherwise the
\* provider is created, outside the try block, and with no provider the
\* segments are returned as they are; with no segments the batch loop has
\* nothing to do
PolishStart ==
    /\ pc = "polish"
    /\ IF ~config.enable
       THEN /\ ret' = segments
            /\ pc' = "polish_done"
       ELSE IF create_llm_provider(config.provider) = "raised"
       THEN /\ ret' = ret
            /\ pc' = "polish_raised"
       ELSE IF create_llm_provider(config.provider) = "none" \/ segments = <<>>
       THEN /\ ret' = segments
            /\ pc' = "polish_done"
       ELSE /\ ret' = <<>>
            /\ pc' = "polish_batch"
    /\ UNCHANGED <<config, segments, call>>

\* one batch: generate, parse, and either emit the polished batch or go on to
\* the individual retries
PolishBatch ==
    /\ pc = "polish_batch"
    /\ LET batch == BatchIndices(segments, call.i, EffectiveBatchSize(config))
           texts == [k \in 1..Cardinality(batch) |-> segments[call.i + k - 1].text]
       IN \E outcome \in LlmOutcomes(texts) :
            LET parsed == parse_json_response_with_context(outcome)
                failed == outcome.kind = "raised" \/ parsed.raised
                emitted == [k \in 1..Min(Len(parsed.polished), Cardinality(batch)) |->
                               [segments[call.i + k - 1] EXCEPT !.text = parsed.polished[k]]]
                next_i == call.i + EffectiveBatchSize(config)
            IN /\ call' = [call EXCEPT
                              !.batch_calls = [k \in DOMAIN @ |->
                                                  IF k \in batch THEN @[k] + 1 ELSE @[k]],
                              !.batch_failed = [k \in DOMAIN @ |->
                                                   IF k \in batch THEN failed ELSE @[k]],
                              !.miscounted = @ \/ (/\ outcome.kind = "response"
                                                   /\ Len(outcome.polished) # Cardinality(batch)),
                              !.j = call.i,
                              !.i = IF failed THEN call.i ELSE next_i]
               /\ ret' = IF failed THEN ret ELSE ret \o emitted
               /\ pc' = IF failed THEN "polish_item"
                        ELSE IF next_i > Len(segments) THEN "polish_done"
                        ELSE "polish_batch"
    /\ UNCHANGED <<config, segments>>

\* one item of a failed batch: generate, parse, and emit the polished item or
\* the original segment
PolishItem ==
    /\ pc = "polish_item"
    /\ LET seg == segments[call.j]
           batch == BatchIndices(segments, call.i, EffectiveBatchSize(config))
           next_i == call.i + EffectiveBatchSize(config)
           last == call.j + 1 \notin batch
       IN \E outcome \in LlmOutcomes(<<seg.text>>) :
            LET parsed == parse_json_response_with_context(outcome)
                failed == outcome.kind = "raised" \/ parsed.raised
                polished_text == IF parsed.polished # <<>> THEN parsed.polished[1]
                                 ELSE seg.text
            IN /\ ret' = Append(ret, IF failed THEN fallback_segment(seg)
                                     ELSE [seg EXCEPT !.text = polished_text])
               /\ call' = [call EXCEPT !.item_calls[call.j] = @ + 1,
                                       !.item_failed[call.j] = failed,
                                       !.j = call.j + 1,
                                       !.i = IF last THEN next_i ELSE call.i]
               /\ pc' = IF ~last THEN "polish_item"
                        ELSE IF next_i > Len(segments) THEN "polish_done"
                        ELSE "polish_batch"
    /\ UNCHANGED <<config, segments>>

MaxPolishSegs == 3
MaxBatchSize == 2
PolishTexts == {<<"a">>, <<"b", "sp">>}

PolishInputs ==
    {[k \in 1..Len(texts) |-> Seg(Tenths(10 * (k - 1)), Tenths(10 * k), texts[k], <<>>)] :
        texts \in SeqsUpTo(PolishTexts, MaxPolishSegs)}

PolishInit ==
    /\ pc = "polish"
    /\ config \in [enable : BOOLEAN, provider : ProviderOutcomes, batch_size : 0..MaxBatchSize]
    /\ segments \in PolishInputs
    /\ call = [i |-> 1, j |-> 1,
               batch_calls  |-> [k \in 1..Len(segments) |-> 0],
               batch_failed |-> [k \in 1..Len(segments) |-> FALSE],
               miscounted   |-> FALSE,
               item_calls   |-> [k \in 1..Len(segments) |-> 0],
               item_failed  |-> [k \in 1..Len(segments) |-> FALSE]]
    /\ ret = None

PolishNext == PolishStart \/ PolishBatch \/ PolishItem

SpecPolish == PolishInit /\ [][PolishNext]_vars

\* C10: once the polishing of a sequence is over, every item of a batch whose
\* call failed has had exactly one individual LLM call, and an item whose
\* individual call failed as well is in the output at its position with its
\* original text, times and words; during the run no item ever has more than
\* one individual call.
C10_BatchFailureRetriedOnce ==
    /\ pc \in {"polish_batch", "polish_item", "polish_done"} =>
          \A k \in 1..Len(segments) : call.item_calls[k] <= 1
    /\ (pc = "polish_done" /\ config.enable
          /\ create_llm_provider(config.provider) = "provider") =>
          \A k \in 1..Len(segments) :
              /\ call.batch_failed[k] => call.item_calls[k] = 1
              /\ (call.batch_failed[k] /\ call.item_failed[k]) =>
                    /\ k <= Len(ret)
                    /\ ret[k] = segments[k]

\* a batch of two failed, both items were retried and failed individually
C10_Witness ==
    /\ pc = "polish_done"
    /\ Len(segments) >= 2
    /\ EffectiveBatchSize(config) = 2
    /\ call.batch_failed[1] /\ call.batch_failed[2]
    /\ call.item_failed[1] /\ call.item_failed[2]
    /\ call.item_calls[1] = 1 /\ call.item_calls[2] = 1
    /\ Len(ret) = Len(segments)

\* the polishing is over with every LLM call having failed
C12_EveryCallFailed ==
    /\ pc = "polish_done"
    /\ segments # <<>>
    /\ \A k \in 1..Len(segments) : call.batch_failed[k] /\ call.item_failed[k]

\* C12: an LLM transport or availability failure, raised while the provider
\* is created or during generate, never leaves the text-polishing feature:
\* the feature ends normally and, where every call failed, the segments are
\* returned with their prior text.
C12_LlmFailureNeverPropagates ==
    /\ pc # "polish_raised"
    /\ C12_EveryCallFailed => ret = segments

-----------------------------------------------------------------------------
(* modules/stage6_timing_realignment/time_based_realignment.py.  What a    *)
(* re-transcription of an audio span returns is chosen by the environment: *)
(* it raised, or it returned a text and the words of its segments, timed   *)
(* from the start of the span.                                             *)

TranscribeRaised == [raised |-> TRUE, text |-> <<>>, words |-> <<>>]
TranscribeResult(text, words) == [raised |-> FALSE, text |-> text, words |-> words]

\* comparison and mean of similarities <<num, den>>
SimGreater(a, b) == a[1] * b[2] > b[1] * a[2]
SimAverage(a, b) == <<a[1] * b[2] + b[1] * a[2], 2 * a[2] * b[2]>>

\* len(audio[int(s * sample_rate):int(e * sample_rate)]), in ticks
AudioSliceLen(s, e, audio_duration) ==
    Max(0, Min(e, audio_duration) - Min(s, audio_duration))

\* sample_rate * 0.1
MinAudioLen == Tenths(1)

\* ''.join([w.get('word', '') for w in all_words])
WordsText(all_words) == Concat([k \in 1..Len(all_words) |-> all_words[k].word])

\* return None
NoBoundary == -1

RECURSIVE best_split(_, _, _, _, _, _)
\* the loop over split points: i words go to the previous segment
best_split(prev_text, curr_text, all_words, i, best_score, best_boundary) ==
    IF i >= Len(all_words) THEN [score |-> best_score, boundary |-> best_boundary]
    ELSE LET before_text == WordsText(SubSeq(all_words, 1, i))
             after_text == WordsText(SubSeq(all_words, i + 1, Len(all_words)))
             score == SimAverage(calculate_text_similarity(prev_text, before_text),
                                 calculate_text_similarity(curr_text, after_text))
             boundary_time == IF i > 0 THEN all_words[i].end ELSE all_words[1].start
         IN IF SimGreater(score, best_score)
            THEN best_split(prev_text, curr_text, all_words, i + 1, score, boundary_time)
            ELSE best_split(prev_text, curr_text, all_words, i + 1, best_score, best_boundary)

\* the boundary between two overlapping segments, from a re-transcription of
\* the span from the start of the previous one to the end of the current one
find_boundary_between_segments(prev_seg, curr_seg, result, audio_duration) ==
    LET search_start == prev_seg.start
        search_end == curr_seg.end
        best == best_split(prev_seg.text, curr_seg.text, result.words, 0, <<0, 1>>, NoBoundary)
    IN IF AudioSliceLen(search_start, search_end, audio_duration) < MinAudioLen
       THEN NoBoundary
       ELSE IF result.raised \/ result.words = <<>> THEN NoBoundary
       ELSE IF 2 * best.score[1] >= best.score[2] /\ best.boundary # NoBoundary
            THEN search_start + best.boundary
            ELSE NoBoundary

\* min_step
MinStep == Tenths(5)

\* the expansion values for at most two attempts: growth_factor ** 0 is 1
expansion_values(tb) ==
    IF tb.expansion_attempts <= 1 THEN <<tb.expansion>>
    ELSE <<MinStep, tb.expansion>>

\* the starts of the sliding windows: backward, then forward, per expansion
shifted_starts(start_time, expansions) ==
    Concat([k \in 1..Len(expansions) |->
               <<Max(0, start_time - expansions[k]), start_time + expansions[k]>>])

\* the best match after one window: its transcription replaces the best so
\* far when the window was long enough, nothing raised and it is more similar
better_match(best, transcribed, result, similarity, shifted_start, shifted_end) ==
    IF transcribed /\ ~result.raised /\ SimGreater(similarity, best.similarity)
    THEN [similarity |-> similarity, has_result |-> TRUE, words |-> result.words,
          start |-> shifted_start, end |-> shifted_end]
    ELSE best

RECURSIVE sliding_window_search_exhaustive(_, _, _, _, _, _)
\* the search over the sliding windows without the early stop
sliding_window_search_exhaustive(segment, windows, trials, best, threshold, audio_duration) ==
    IF windows = <<>> THEN best
    ELSE sliding_window_search_exhaustive(
             segment, Tail(windows), Tail(trials),
             better_match(best,
                          AudioSliceLen(windows[1], windows[1] + (segment.end - segment.start),
                                        audio_duration) >= MinAudioLen,
                          trials[1],
                          calculate_text_similarity(segment.text, Strip(trials[1].text)),
                          windows[1], windows[1] + (segment.end - segment.start)),
             threshold, audio_duration)

RECURSIVE sliding_window_search(_, _, _, _, _, _)
\* the search over the sliding windows, with the early stop once the best
\* similarity meets the threshold; trials[k] is what window k transcribes to
sliding_window_search(segment, windows, trials, best, threshold, audio_duration) ==
    IF windows = <<>> \/ SimAtLeast(best.similarity, threshold) THEN best
    ELSE sliding_window_search(
             segment, Tail(windows), Tail(trials),
             better_match(best,
                          AudioSliceLen(windows[1], windows[1] + (segment.end - segment.start),
                                        audio_duration) >= MinAudioLen,
                          trials[1],
                          calculate_text_similarity(segment.text, Strip(trials[1].text)),
                          windows[1], windows[1] + (segment.end - segment.start)),
             threshold, audio_duration)

\* the boundaries of the best match, taken from its first and last word, when
\* it improved on the initial similarity and moved the segment
extract_boundaries(segment, best, initial_similarity) ==
    LET actual_start == IF best.words # <<>> THEN best.start + best.words[1].start
                        ELSE best.start
        actual_end == IF best.words # <<>> THEN best.start + best.words[Len(best.words)].end
                      ELSE best.end
    IN IF /\ best.has_result
          /\ SimGreater(best.similarity, initial_similarity)
          /\ (actual_start # segment.start \/ actual_end # segment.end)
       THEN [segment |-> Seg(actual_start, actual_end, segment.text, <<>>), adjusted |-> TRUE]
       ELSE [segment |-> segment, adjusted |-> FALSE]

\* a segment whose initial similarity meets the threshold keeps its timing;
\* otherwise the windows are searched
verify_after_initial(segment, initial_similarity, trials, tb, audio_duration) ==
    IF SimAtLeast(initial_similarity, tb.similarity)
    THEN [segment |-> segment, adjusted |-> FALSE]
    ELSE extract_boundaries(
             segment,
             sliding_window_search(
                 segment, shifted_starts(segment.start, expansion_values(tb)), trials,
                 [similarity |-> initial_similarity, has_result |-> FALSE, words |-> <<>>,
                  start |-> segment.start, end |-> segment.end],
                 tb.similarity, audio_duration),
             initial_similarity)

\* 5 characters per second
EstimatedCharDuration == Tenths(2)

\* verify a segment at its time range and slide the window when the text
\* does not match; initial and trials are what the spans transcribe to
verify_segment_timing_time_based(segment, initial, trials, cfg) ==
    LET text_length == Len(Strip(segment.text))
        verification_end == segment.start + Max(segment.end - segment.start,
                                                text_length * EstimatedCharDuration)
    IN IF text_length < 2 THEN [segment |-> segment, adjusted |-> FALSE]
       ELSE IF AudioSliceLen(segment.start, verification_end, cfg.audio_duration) < MinAudioLen
            THEN [segment |-> segment, adjusted |-> FALSE]
       ELSE verify_after_initial(
                segment,
                IF initial.raised THEN <<0, 1>>
                ELSE calculate_text_similarity(segment.text, Strip(initial.text)),
                trials, cfg.timing_realignment.time_based, cfg.audio_duration)

\* the pairs the loop over the adjusted indices collects: an adjusted segment
\* closer than min_gap to the segment before it, then to the one after it
overlap_pairs(realigned, adjusted_indices, min_gap) ==
    Concat([n \in 1..Len(adjusted_indices) |->
        LET idx == adjusted_indices[n]
        IN (IF idx > 1 /\ realigned[idx].start < realigned[idx - 1].end + min_gap
            THEN <<<<idx - 1, idx>>>> ELSE <<>>)
           \o
           (IF idx < Len(realigned) /\ realigned[idx].end > realigned[idx + 1].start - min_gap
            THEN <<<<idx, idx + 1>>>> ELSE <<>>)])

\* a fix of one overlapping pair that also moves the text: the previous
\* segment takes the text of both and both move to the midpoint
fix_overlap_moving_text(realigned, pair, boundary, min_gap) ==
    [realigned EXCEPT
        ![pair[1]] = Seg(realigned[pair[1]].start,
                         (realigned[pair[1]].end + realigned[pair[2]].start) \div 2,
                         realigned[pair[1]].text \o realigned[pair[2]].text,
                         realigned[pair[1]].words),
        ![pair[2]] = Seg((realigned[pair[1]].end + realigned[pair[2]].start) \div 2 + min_gap,
                         realigned[pair[2]].end, realigned[pair[2]].text,
                         realigned[pair[2]].words)]

\* the fix of one overlapping pair: the previous segment ends at the boundary
\* and the current one starts min_gap later if that is before its end; with no
\* boundary both move to the midpoint
fix_overlap(realigned, pair, boundary, min_gap) ==
    LET prev_idx == pair[1]
        curr_idx == pair[2]
        prev_seg == realigned[prev_idx]
        curr_seg == realigned[curr_idx]
        new_curr_start == boundary + min_gap
        midpoint == (prev_seg.end + curr_seg.start) \div 2
    IN IF boundary # NoBoundary
       THEN LET ended == [realigned EXCEPT
                             ![prev_idx] = Seg(prev_seg.start, boundary, prev_seg.text, prev_seg.words)]
            IN IF new_curr_start < curr_seg.end
               THEN [ended EXCEPT
                        ![curr_idx] = Seg(new_curr_start, curr_seg.end, curr_seg.text, curr_seg.words)]
               ELSE ended
       ELSE [realigned EXCEPT
                ![prev_idx] = Seg(prev_seg.start, midpoint, prev_seg.text, prev_seg.words),
                ![curr_idx] = Seg(midpoint + min_gap, curr_seg.end, curr_seg.text, curr_seg.words)]

-----------------------------------------------------------------------------
(* modules/stage6_timing_realignment/text_search_realignment.py and         *)
(* utils.py: the text-search method.  A transcription with segments is a   *)
(* record with the list of its segments, timed from the start of the       *)
(* window; a match is where the text was found and how similar it is.       *)

SearchResult(segs) == [raised |-> FALSE, segments |-> segs]
NoMatch(similarity) == [found |-> FALSE, start |-> 0, end |-> 0, similarity |-> similarity]
Match(start, end, similarity) ==
    [found |-> TRUE, start |-> start, end |-> end, similarity |-> similarity]

\* the class [、。！？\s] removed from the target text
TargetPunct == {"comma", "maru", "bang", "qmark"} \cup Whitespace

\* the best match so far after one more combination
closer_match(best, similarity, start, end) ==
    IF SimGreater(similarity, best.similarity) THEN Match(start, end, similarity) ELSE best

\* the return at the end of a search: the best match when it is reasonable
reasonable_match(best) ==
    IF best.found /\ SimAtLeast(best.similarity, 60) THEN best ELSE NoMatch(best.similarity)

\* ''.join of the stripped words start_idx..end_idx
JoinedWords(words, start_idx, end_idx) ==
    Concat([k \in 1..(end_idx - start_idx + 1) |-> Strip(words[start_idx + k - 1].word)])

MaxWordsToCombine == 15

RECURSIVE find_in_words_from(_, _, _, _, _, _)
\* the two loops of find_text_in_words at start_idx, end_idx
find_in_words_from(target_text, target_clean, words, start_idx, end_idx, best) ==
    IF start_idx > Len(words) THEN reasonable_match(best)
    ELSE IF end_idx > Min(start_idx + MaxWordsToCombine - 1, Len(words))
            \/ (end_idx > start_idx
                /\ 2 * Len(JoinedWords(words, start_idx, end_idx - 1)) > 3 * Len(target_clean))
    THEN \* the inner loop is over or was left because the words are too long
         IF SimAtLeast(best.similarity, 85) THEN reasonable_match(best)
         ELSE find_in_words_from(target_text, target_clean, words,
                                 start_idx + 1, start_idx + 1, best)
    ELSE IF SimAtLeast(calculate_text_similarity(target_text,
                                                 JoinedWords(words, start_idx, end_idx)), 90)
    THEN closer_match(best,
                      calculate_text_similarity(target_text,
                                                JoinedWords(words, start_idx, end_idx)),
                      words[start_idx].start, words[end_idx].end)
    ELSE find_in_words_from(
             target_text, target_clean, words, start_idx, end_idx + 1,
             closer_match(best,
                          calculate_text_similarity(target_text,
                                                    JoinedWords(words, start_idx, end_idx)),
                          words[start_idx].start, words[end_idx].end))

\* utils.py: find_text_in_words with offset 0
find_text_in_words(target_text, words) ==
    IF words = <<>> \/ target_text = <<>> THEN NoMatch(<<0, 1>>)
    ELSE IF Remove(target_text, TargetPunct) = <<>> THEN NoMatch(<<0, 1>>)
    ELSE find_in_words_from(target_text, Remove(target_text, TargetPunct), words,
                            1, 1, NoMatch(<<0, 1>>))

\* the stripped texts of the segments start_idx..end_idx put together
CombinedText(segs, start_idx, end_idx) ==
    Concat([k \in 1..(end_idx - start_idx + 1) |-> Strip(segs[start_idx + k - 1].text)])

MaxSegmentsToCombine == 5

RECURSIVE best_combination_from(_, _, _, _, _)
\* the two loops of find_text_in_transcription at start_idx, end_idx; done
\* tells that an excellent match ended the search
best_combination_from(target_text, segs, start_idx, end_idx, best) ==
    IF start_idx > Len(segs) THEN [best |-> best, done |-> FALSE]
    ELSE IF end_idx > Min(start_idx + MaxSegmentsToCombine - 1, Len(segs))
            \/ (end_idx > start_idx
                /\ 2 * Len(CombinedText(segs, start_idx, end_idx - 1)) > 3 * Len(target_text))
    THEN IF SimAtLeast(best.similarity, 85) THEN [best |-> best, done |-> FALSE]
         ELSE best_combination_from(target_text, segs, start_idx + 1, start_idx + 1, best)
    ELSE IF SimAtLeast(calculate_text_similarity(target_text,
                                                 CombinedText(segs, start_idx, end_idx)), 90)
    THEN [best |-> closer_match(best,
                                calculate_text_similarity(
                                    target_text, CombinedText(segs, start_idx, end_idx)),
                                segs[start_idx].start, segs[end_idx].end),
          done |-> TRUE]
    ELSE best_combination_from(
             target_text, segs, start_idx, end_idx + 1,
             closer_match(best,
                          calculate_text_similarity(
                              target_text, CombinedText(segs, start_idx, end_idx)),
                          segs[start_idx].start, segs[end_idx].end))

\* the end of find_text_in_transcription: the segment-level match when it is
\* reasonable, else the word-level match when it is more similar
match_or_words(target_text, segs, combination) ==
    IF combination.done THEN combination.best
    ELSE IF combination.best.found /\ SimAtLeast(combination.best.similarity, 60)
    THEN combination.best
    ELSE IF /\ Concat([k \in 1..Len(segs) |-> segs[k].words]) # <<>>
            /\ SimGreater(find_text_in_words(
                              target_text,
                              Concat([k \in 1..Len(segs) |-> segs[k].words])).similarity,
                          combination.best.similarity)
    THEN find_text_in_words(target_text, Concat([k \in 1..Len(segs) |-> segs[k].words]))
    ELSE NoMatch(combination.best.similarity)

\* text_search_realignment.py: find_text_in_transcription
find_text_in_transcription(target_text, result) ==
    IF Remove(target_text, TargetPunct) = <<>> THEN NoMatch(<<0, 1>>)
    ELSE match_or_words(target_text, result.segments,
                        best_combination_from(target_text, result.segments, 1, 1,
                                              NoMatch(<<0, 1>>)))

NoWindowMatch == [has_match |-> FALSE, similarity |-> <<0, 1>>,
                  found_start |-> 0, found_end |-> 0, search_start |-> 0]

\* the best match after one search window
window_match(best, found, search_start) ==
    IF found.found /\ SimGreater(found.similarity, best.similarity)
    THEN [has_match |-> TRUE, similarity |-> found.similarity,
          found_start |-> found.start, found_end |-> found.end,
          search_start |-> search_start]
    ELSE best

RECURSIVE search_windows_from(_, _, _, _, _, _)
\* the loop over the expansion values, with the early stop; trials[k] is what
\* the window of expansion k transcribes to
search_windows_from(segment, expansions, trials, best, threshold, audio_duration) ==
    IF expansions = <<>> \/ SimAtLeast(best.similarity, threshold) THEN best
    ELSE IF AudioSliceLen(Max(0, segment.start - expansions[1]), segment.end + expansions[1],
                          audio_duration) < MinAudioLen
            \/ trials[1].raised
    THEN search_windows_from(segment, Tail(expansions), Tail(trials), best, threshold,
                             audio_duration)
    ELSE search_windows_from(
             segment, Tail(expansions), Tail(trials),
             window_match(best, find_text_in_transcription(segment.text, trials[1]),
                          Max(0, segment.start - expansions[1])),
             threshold, audio_duration)

Abs(n) == IF n < 0 THEN -n ELSE n

\* the adjusted span kept off the neighbours by min_gap; a span that ends
\* at or before its start leaves the segment as it was
clamp_to_neighbours(segment, adjusted_start, adjusted_end, segment_index, all_segments, min_gap) ==
    LET clamped_start ==
            IF segment_index > 1 /\ adjusted_start < all_segments[segment_index - 1].end + min_gap
            THEN all_segments[segment_index - 1].end + min_gap
            ELSE adjusted_start
        clamped_end ==
            IF /\ segment_index < Len(all_segments)
               /\ adjusted_end > all_segments[segment_index + 1].start - min_gap
            THEN all_segments[segment_index + 1].start - min_gap
            ELSE adjusted_end
    IN IF clamped_end <= clamped_start THEN [segment |-> segment, adjusted |-> FALSE]
       ELSE [segment |-> Seg(clamped_start, clamped_end, segment.text, <<>>),
             adjusted |-> TRUE]

\* what follows the search: no match or a minor adjustment keeps the segment
adjust_to_match(segment, best, ts, segment_index, all_segments, min_gap) ==
    IF ~best.has_match THEN [segment |-> segment, adjusted |-> FALSE]
    ELSE IF /\ Abs(best.search_start + best.found_start - segment.start)
                  < ts.adjustment_threshold
            /\ Abs(best.search_start + best.found_end - segment.end)
                  < ts.adjustment_threshold
    THEN [segment |-> segment, adjusted |-> FALSE]
    ELSE clamp_to_neighbours(segment, best.search_start + best.found_start,
                             best.search_start + best.found_end,
                             segment_index, all_segments, min_gap)

\* text_search_realignment.py: realign_segment_timing_text_search
realign_segment_timing_text_search(segment, trials, cfg, segment_index, all_segments) ==
    IF Len(Strip(segment.text)) < 2 THEN [segment |-> segment, adjusted |-> FALSE]
    ELSE adjust_to_match(
             segment,
             search_windows_from(segment, expansion_values(cfg.timing_realignment.text_search),
                                 trials, NoWindowMatch,
                                 cfg.timing_realignment.text_search.similarity,
                                 cfg.audio_duration),
             cfg.timing_realignment.text_search, segment_index, all_segments,
             cfg.timing_realignment.min_gap)

\* modules/stage6_timing_realignment/processor.py: the method realign_timing
\* dispatches to
realign_method(cfg) ==
    IF cfg.timing_realignment.method = "text_search" THEN "text_search" ELSE "time_based"

-----------------------------------------------------------------------------
(* HallucinationFilter followed by TimingRealigner, either method.  The    *)
(* realigner's locals are in call: the segments it was given, the index k  *)
(* of the segment to verify, the adjusted indices, the overlapping pairs   *)
(* and the index p of the pair to fix; segments is its list realigned.     *)

\* a text that matches none of the segments' texts
Unrelated == <<"n">>

\* what the audio at a window can transcribe to when a segment is verified:
\* nothing, another text, or the segment's text spoken from a tenth of a
\* second into the window to its end
VerifyOutcomes(segment) ==
    {TranscribeRaised,
     TranscribeResult(Unrelated, <<>>),
     TranscribeResult(segment.text,
                      <<Word(segment.text, Tenths(1), segment.end - segment.start)>>)}

\* where in a span of the given length the first text can end
BoundaryOffsets(length) == {b \in {Tenths(5), length - Tenths(1)} : b > 0 /\ b <= length}

\* what the span of two overlapping segments can transcribe to: nothing, or
\* the two texts one after the other
BoundaryOutcomes(prev_seg, curr_seg) ==
    {TranscribeRaised} \cup
    {TranscribeResult(prev_seg.text \o curr_seg.text,
                      <<Word(prev_seg.text, 0, b),
                        Word(curr_seg.text, b, curr_seg.end - prev_seg.start)>>) :
        b \in BoundaryOffsets(curr_seg.end - prev_seg.start)}

\* realign_timing up to the first segment's verification: without a model,
\* or when the audio does not load, the segments are returned as they are
RealignStart ==
    /\ pc = "stage6"
    /\ \E loaded \in BOOLEAN :
          pc' = IF config.has_model /\ loaded /\ segments # <<>>
                THEN (IF realign_method(config) = "text_search" THEN "search" ELSE "verify")
                ELSE "stage8"
    /\ call' = [input |-> segments, k |-> 1, adjusted_indices |-> <<>>,
                overlap_pairs |-> <<>>, p |-> 1]
    /\ UNCHANGED <<config, segments, ret>>

\* the end of one pass of the verification loop: the verified segment is
\* appended and, after the last segment, the overlapping pairs are collected
RecordVerified(verified) ==
    LET k == call.k
        realigned == [segments EXCEPT ![k] = verified.segment]
        adjusted_indices == IF verified.adjusted THEN Append(call.adjusted_indices, k)
                            ELSE call.adjusted_indices
        last == k = Len(segments)
        pairs == IF last
                 THEN overlap_pairs(realigned, adjusted_indices,
                                    config.timing_realignment.min_gap)
                 ELSE <<>>
    IN /\ segments' = realigned
       /\ call' = [call EXCEPT !.k = k + 1, !.adjusted_indices = adjusted_indices,
                               !.overlap_pairs = pairs]
       /\ pc' = IF ~last THEN pc
                ELSE IF pairs # <<>> THEN "boundaries" ELSE "stage8"

\* one pass of the verification loop
VerifySegment ==
    /\ pc = "verify"
    /\ \E initial \in VerifyOutcomes(segments[call.k]) :
       \E trials \in [1..(2 * Len(expansion_values(config.timing_realignment.time_based)))
                      -> VerifyOutcomes(segments[call.k])] :
          RecordVerified(verify_segment_timing_time_based(segments[call.k], initial,
                                                          trials, config))
    /\ UNCHANGED <<config, ret>>

\* what the audio of a search window can transcribe to: nothing, no segment,
\* another text, the segment's text spoken from the start of the window or
\* from 1.2 seconds into it, the text over two segments, or the text as the
\* last word of a longer segment
TextSearchOutcomes(segment) ==
    {TranscribeRaised,
     SearchResult(<<>>),
     SearchResult(<<Seg(0, Tenths(5), Unrelated, <<>>)>>),
     SearchResult(<<Seg(0, Tenths(5), <<Head(segment.text)>>, <<>>),
                    Seg(Tenths(5), Tenths(9), Tail(segment.text), <<>>)>>),
     SearchResult(<<Seg(0, Tenths(20), Unrelated \o Unrelated \o Unrelated \o segment.text,
                        <<Word(Unrelated \o Unrelated \o Unrelated, 0, Tenths(3)),
                          Word(segment.text, Tenths(3), Tenths(12))>>)>>)}
    \cup
    {SearchResult(<<Seg(off, off + (segment.end - segment.start), segment.text,
                        <<Word(segment.text, off, off + (segment.end - segment.start))>>)>>) :
        off \in {0, Tenths(12)}}

\* one pass of the sequential loop of realign_timing_text_search: the list
\* the segment is checked against is the realigned segments followed by the
\* segments still to do
SearchSegment ==
    /\ pc = "search"
    /\ \E trials \in [1..Len(expansion_values(config.timing_realignment.text_search))
                      -> TextSearchOutcomes(segments[call.k])] :
          RecordVerified(realign_segment_timing_text_search(segments[call.k], trials, config,
                                                            call.k, segments))
    /\ UNCHANGED <<config, ret>>

\* one pass of the loop over the overlapping pairs
FixOverlap ==
    /\ pc = "boundaries"
    /\ \E result \in BoundaryOutcomes(segments[call.overlap_pairs[call.p][1]],
                                      segments[call.overlap_pairs[call.p][2]]) :
          segments' = fix_overlap(
              segments, call.overlap_pairs[call.p],
              find_boundary_between_segments(segments[call.overlap_pairs[call.p][1]],
                                             segments[call.overlap_pairs[call.p][2]],
                                             result, config.audio_duration),
              config.timing_realignment.min_gap)
    /\ call' = [call EXCEPT !.p = call.p + 1]
    /\ pc' = IF call.p = Len(call.overlap_pairs) THEN "stage8" ELSE "boundaries"
    /\ UNCHANGED <<config, ret>>

MaxRealignSegs == 3
RealignTexts == {<<"a", "b">>, <<"b", "a">>, Token}

\* the segments with the words of those in with_words set to the text as
\* one word over the span
WithWords(segs, with_words) ==
    [k \in 1..Len(segs) |->
        IF k \in with_words
        THEN [segs[k] EXCEPT !.words = <<Word(segs[k].text, segs[k].start, segs[k].end)>>]
        ELSE segs[k]]

\* segments of one second each, back to back from one second into the audio,
\* each with or without words
RealignInputs ==
    UNION {{WithWords(BackToBack(texts, [k \in 1..n |-> TicksPerSecond], TicksPerSecond),
                      with_words) :
                texts \in [1..n -> RealignTexts], with_words \in SUBSET (1..n)} :
           n \in 1..MaxRealignSegs}

\* the audio ends where the last of MaxRealignSegs segments would end
AudioDuration == (MaxRealignSegs + 1) * TicksPerSecond

\* one attempt at half a second, or two attempts up to a second
TimeBasedOptions ==
    {[expansion |-> Tenths(5), expansion_attempts |-> 1, similarity |-> 60],
     [expansion |-> Tenths(10), expansion_attempts |-> 2, similarity |-> 60]}

\* one attempt at half a second, or two attempts up to a second; a move of
\* less than adjustment_threshold is not made
TextSearchOptions ==
    {[expansion |-> Tenths(5), expansion_attempts |-> 1, similarity |-> 85,
      adjustment_threshold |-> Tenths(3)],
     [expansion |-> Tenths(10), expansion_attempts |-> 2, similarity |-> 85,
      adjustment_threshold |-> Tenths(3)]}

\* either method with its options; the options of the other method are the
\* first of its set
RealignMethods ==
    {[enable |-> TRUE, method |-> "time_based", min_gap |-> Tenths(1), time_based |-> tb,
      text_search |-> [expansion |-> Tenths(5), expansion_attempts |-> 1, similarity |-> 85,
                       adjustment_threshold |-> Tenths(3)]] : tb \in TimeBasedOptions}
    \cup
    {[enable |-> TRUE, method |-> "text_search", min_gap |-> Tenths(1),
      time_based |-> [expansion |-> Tenths(5), expansion_attempts |-> 1, similarity |-> 60],
      text_search |-> ts] : ts \in TextSearchOptions}

RealignConfigs ==
    [has_model : BOOLEAN,
     audio_duration : {AudioDuration},
     phrase_filter : {[enable |-> FALSE, patterns |-> {}, enable_revalidate |-> FALSE]},
     consecutive_duplicates : {[enable |-> TRUE, min_occurrences |-> 2]},
     timing_validation : {[enable |-> TRUE, max_chars_per_second |-> 20,
                           enable_revalidate |-> FALSE]},
     final_cleanup : {[enable |-> TRUE]},
     stammer_filter : {[enable |-> TRUE]},
     vocalization_replacement : {DefaultVocalization},
     word_repetition : {DefaultWordRepetition},
     global_word_filter : {[enable |-> FALSE, min_occurrences |-> 12]},
     cluster_filter : {DefaultCluster},
     timing_realignment : RealignMethods]

RealignInit ==
    /\ pc = "stage5"
    /\ config \in RealignConfigs
    /\ segments \in RealignInputs
    /\ call = segments
    /\ ret = None

RealignNext ==
    FilterHallucinations \/ RealignStart \/ VerifySegment \/ SearchSegment \/ FixOverlap

SpecRealign == RealignInit /\ [][RealignNext]_vars

\* C1: after HallucinationFilter followed by TimingRealigner, every adjacent
\* pair (a, b) of the resulting sequence satisfies b.start >= a.end.
C1_NoResidualOverlap ==
    pc = "stage8" =>
        \A k \in 1..(Len(segments) - 1) : segments[k + 1].start >= segments[k].end

-----------------------------------------------------------------------------
(* The phrase filter and the timing validator called with a model, so that *)
(* they re-transcribe the segments they suspect.  ret records what each    *)
(* span transcribed to and the segments the filter returned.               *)

MaxRevalidateSegs == 2
RevalidateTexts == {Phrase, Greeting}

\* a segment with no words, or with its text as one word over its span
WordOptions(text, start, end) == {<<>>, <<Word(text, start, end)>>}

RECURSIVE RevalidateInputsFrom(_, _)
\* back-to-back segments, each a tenth of a second (too fast) or a second long
RevalidateInputsFrom(n, start) ==
    IF n = 0 THEN {<<>>}
    ELSE UNION {{<<Seg(start, start + d, text, words)>> \o rest :
                    words \in WordOptions(text, start, start + d),
                    rest \in RevalidateInputsFrom(n - 1, start + d)} :
                <<text, d>> \in RevalidateTexts \X FilterDurations}

RevalidateInputs == UNION {RevalidateInputsFrom(n, 0) : n \in 1..MaxRevalidateSegs}

RevalidateConfigs ==
    {[FilterConfig(TRUE, FALSE, [has_model |-> has_model, enable |-> TRUE,
                                 enable_revalidate |-> revalidate])
         EXCEPT !.phrase_filter.enable_revalidate = revalidate] :
        has_model \in BOOLEAN, revalidate \in BOOLEAN}

RevalidateInit ==
    /\ pc = "revalidate"
    /\ config \in RevalidateConfigs
    /\ segments \in RevalidateInputs
    /\ call = None
    /\ ret = None

\* remove_hallucination_phrases(segments, config, model, media_path)
CallPhraseFilter ==
    /\ pc = "revalidate"
    /\ \E asr \in AsrChoices(segments, config, AsrTexts) :
          /\ call' = [asr |-> asr]
          /\ ret' = remove_hallucination_phrases(segments, config, config.has_model, asr)
    /\ pc' = "phrase_filter_returned"
    /\ UNCHANGED <<config, segments>>

\* validate_segment_timing(segments, config, model, media_path)
CallTimingValidator ==
    /\ pc = "revalidate"
    /\ \E asr \in AsrChoices(segments, config, AsrTexts) :
          /\ call' = [asr |-> asr]
          /\ ret' = validate_segment_timing(segments, config, config.has_model, asr)
    /\ pc' = "timing_validator_returned"
    /\ UNCHANGED <<config, segments>>

RevalidateNext == CallPhraseFilter \/ CallTimingValidator

SpecRevalidate == RevalidateInit /\ [][RevalidateNext]_vars

\* the phrase filter asks for segment k to be re-transcribed
PhraseFilterRevalidates(k) ==
    /\ config.phrase_filter.enable_revalidate /\ config.has_model
    /\ \E p \in config.phrase_filter.patterns : Search(p, normalize_text(segments[k].text))

\* the timing validator asks for segment k to be re-transcribed
TimingValidatorRevalidates(k) ==
    /\ config.timing_validation.enable_revalidate /\ config.has_model
    /\ segments[k].end > segments[k].start
    /\ \/ Len(segments[k].text) * TicksPerSecond
             > config.timing_validation.max_chars_per_second
                  * (segments[k].end - segments[k].start)
       \/ /\ Len(segments[k].text) * TicksPerSecond
                < SlowCharsPerSecond * (segments[k].end - segments[k].start)
          /\ Len(segments[k].text) > SlowMinChars

\* segment k is in the returned segments as it was given
KeptUnchanged(k) == \E j \in 1..Len(ret) : ret[j] = segments[k]

\* C11: when the re-transcription a filter asked for fails, the filter's
\* output holds the original segment unchanged: same start, end, text and
\* word list.
C11_FailureKeepsOriginal ==
    \A k \in 1..Len(segments) :
        /\ (pc = "phrase_filter_returned" /\ PhraseFilterRevalidates(k)
               /\ call.asr[segments[k].start] = AsrFailed) => KeptUnchanged(k)
        /\ (pc = "timing_validator_returned" /\ TimingValidatorRevalidates(k)
               /\ call.asr[segments[k].start] = AsrFailed) => KeptUnchanged(k)

-----------------------------------------------------------------------------
(* modules/stage4_segment_splitting/llm_splitter.py:                       *)
(* split_long_segment_with_llm on a segment without word timestamps.  call *)
(* counts the calls of the provider's generate and keeps its response.     *)

\* the forms a response can have: a JSON object, the object in a markdown
\* fence, a numbered list, a plain array, a JSON object cut short
ResponseKinds == {"json", "fenced", "numbered_list", "plain_array", "truncated"}

LlmEmpty == [kind |-> "empty", polished |-> <<>>]
LlmSplitResponse(kind, pieces) == [kind |-> kind, polished |-> pieces]

\* the text cut in two after its first n characters
CutAt(text, n) == <<SubSeq(text, 1, n), SubSeq(text, n + 1, Len(text))>>

\* what generate may do when asked to split a text: raise, return nothing,
\* or return the text cut in two in one of the forms
SplitOutcomes(text) ==
    {LlmRaised, LlmEmpty} \cup
    {LlmSplitResponse(kind, CutAt(text, Len(text) \div 2)) : kind \in ResponseKinds}

\* the timing check: the duration is shorter than the reading time of the
\* text, or the characters per second exceed the maximum
timing_unrealistic(text_length, duration, max_chars_per_sec) ==
    \/ duration * max_chars_per_sec < text_length * TicksPerSecond
    \/ (duration > 0 /\ text_length * TicksPerSecond > max_chars_per_sec * duration)

RECURSIVE llm_proportional_from(_, _, _, _, _)
\* the loop of the proportional timing over pieces[i..]; chars_before is the
\* number of characters of the pieces before i
llm_proportional_from(seg, pieces, i, chars_before, total_chars) ==
    IF i > Len(pieces) THEN <<>>
    ELSE LET duration == seg.end - seg.start
             current_time == seg.start + (duration * chars_before) \div total_chars
             seg_end == IF i = Len(pieces) THEN seg.end
                        ELSE seg.start
                             + (duration * (chars_before + Len(pieces[i]))) \div total_chars
         IN <<Seg(current_time, seg_end, pieces[i], <<>>)>>
            \o llm_proportional_from(seg, pieces, i + 1, chars_before + Len(pieces[i]),
                                     total_chars)

\* the code after the response was parsed, for a segment without words: one
\* piece or none, pieces that do not match the text, or an unrealistic
\* timing keep the segment; otherwise the pieces share its time in
\* proportion to their lengths
split_parsed_segments(seg, pieces, cfg) ==
    IF Len(pieces) <= 1 THEN <<seg>>
    ELSE IF ~validate_llm_segments(seg.text, pieces).valid THEN <<seg>>
    ELSE IF timing_unrealistic(Len(Strip(seg.text)), seg.end - seg.start,
                               cfg.max_chars_per_second)
    THEN <<seg>>
    ELSE llm_proportional_from(seg, pieces, 1, 0, Len(Concat(pieces)))

\* the call of generate and what follows it: an exception keeps the segment,
\* an empty response returns it without words, and a response is parsed; the
\* TypeError of the parse is caught with every other exception
split_after_generate(seg, outcome, cfg) ==
    IF outcome.kind = "raised" THEN <<seg>>
    ELSE IF outcome.kind = "empty" THEN <<Seg(seg.start, seg.end, seg.text, <<>>)>>
    ELSE IF parse_json_response_with_context(outcome).raised THEN <<seg>>
    ELSE split_parsed_segments(seg, parse_json_response_with_context(outcome).polished, cfg)

\* up to the creation of the provider: LLM splitting disabled, a text that is
\* not too long, or no provider return the segment as it is
LlmSplitStart ==
    /\ pc = "llm_split"
    /\ IF ~config.enable_llm \/ Len(Strip(segments[1].text)) <= config.max_line_length
       THEN /\ ret' = segments
            /\ pc' = "llm_split_done"
       ELSE IF create_llm_provider(config.provider) = "raised"
       THEN /\ ret' = ret
            /\ pc' = "llm_split_raised"
       ELSE IF create_llm_provider(config.provider) = "none"
       THEN /\ ret' = segments
            /\ pc' = "llm_split_done"
       ELSE /\ ret' = ret
            /\ pc' = "llm_generate"
    /\ UNCHANGED <<config, segments, call>>

\* generate and the rest of the function
LlmSplitGenerate ==
    /\ pc = "llm_generate"
    /\ \E outcome \in SplitOutcomes(Strip(segments[1].text)) :
          /\ call' = [generate_calls |-> call.generate_calls + 1, response |-> outcome]
          /\ ret' = split_after_generate(segments[1], outcome, config)
    /\ pc' = "llm_split_done"
    /\ UNCHANGED <<config, segments>>

MaxLlmTextLen == 4
LlmSplitTexts ==
    {t \in SeqsUpTo({"a", "b", "maru"}, MaxLlmTextLen) : Len(t) >= MaxLlmTextLen - 1}

\* one segment, a tenth of a second or a second long, without words
LlmSplitInputs ==
    {<<Seg(start, start + d, text, <<>>)>> :
        start \in {0, Tenths(10)}, d \in FilterDurations, text \in LlmSplitTexts}

LlmSplitInit ==
    /\ pc = "llm_split"
    /\ config \in [enable_llm : BOOLEAN, max_line_length : {2, MaxLlmTextLen},
                   max_chars_per_second : {20}, provider : ProviderOutcomes]
    /\ segments \in LlmSplitInputs
    /\ call = [generate_calls |-> 0, response |-> None]
    /\ ret = None

LlmSplitNext == LlmSplitStart \/ LlmSplitGenerate

SpecLlmSplit == LlmSplitInit /\ [][LlmSplitNext]_vars

\* the response is malformed in a way that leaves its content whole, and its
\* content is a split the function accepts
C13_RepairableResponse ==
    /\ pc = "llm_split_done"
    /\ call.generate_calls = 1
    /\ call.response.kind \in {"fenced", "numbered_list", "plain_array"}
    /\ Len(split_parsed_segments(segments[1], call.response.polished, config)) > 1

\* C13: a malformed LLM response (markdown-fenced JSON, numbered list, plain
\* array) goes through the repair strategies and its repaired content is
\* used: the segment is split into the pieces of the response.
C13_RepairedContentUsed ==
    C13_RepairableResponse =>
        [k \in 1..Len(ret) |-> ret[k].text] = call.response.polished

\* C18: for a segment whose timing is unrealistic (more characters per second
\* than the maximum, or shorter than the reading time of its text) generate
\* is never called, and the segment is returned unsplit.
C18_TimingCheckedBeforeGenerate ==
    timing_unrealistic(Len(Strip(segments[1].text)), segments[1].end - segments[1].start,
                       config.max_chars_per_second) =>
        /\ call.generate_calls = 0
        /\ pc = "llm_split_done" => ret = segments

\* C14: with every input segment satisfying start <= end, every segment the
\* TimingRealigner returns, its overlap post-pass included, satisfies
\* start <= end.
C14_StartNotAfterEnd ==
    pc = "stage8" => \A k \in 1..Len(segments) : segments[k].start <= segments[k].end

\* C15: with the input ordered by start, the segments the TimingRealigner
\* hands to the next stage are ordered by start ascending.
C15_OrderedByStart ==
    pc = "stage8" =>
        \A k \in 1..(Len(segments) - 1) : segments[k].start <= segments[k + 1].start

\* C19: every segment whose start or end the TimingRealigner changed, in the
\* verification or in the overlap post-pass, has an empty word list in the
\* realigner's output.
C19_ChangedTimingClearsWords ==
    (pc = "stage8" /\ Len(segments) = Len(call.input)) =>
        \A k \in 1..Len(segments) :
            (segments[k].start # call.input[k].start \/ segments[k].end # call.input[k].end)
                => segments[k].words = <<>>

\* the re-transcription of segment k's span found speech
Retranscribed(k) ==
    /\ call.asr[segments[k].start].kind = "speech"
    /\ Strip(call.asr[segments[k].start].text) # <<>>

\* the re-transcribed text of segment k is at least 0.75 similar to its text
RetranscriptionSimilar(k) ==
    SimAtLeast(calculate_text_similarity(
                   normalize_text(segments[k].text),
                   normalize_text(Strip(call.asr[segments[k].start].text))), 75)

\* the returned segments on the time span of segment k
ReturnedOnSpan(k) ==
    {j \in 1..Len(ret) : ret[j].start = segments[k].start /\ ret[j].end = segments[k].end}

\* C17: with re-verification enabled, a segment matching a hallucination
\* pattern and re-transcribed on its span is dropped when the re-transcription
\* is at least 0.75 similar to its text, and otherwise kept with the
\* re-transcribed text in place of the original text.
C17_RevalidatedPhraseDecision ==
    pc = "phrase_filter_returned" =>
        \A k \in 1..Len(segments) :
            (PhraseFilterRevalidates(k) /\ Retranscribed(k)) =>
                IF RetranscriptionSimilar(k)
                THEN ReturnedOnSpan(k) = {}
                ELSE /\ ReturnedOnSpan(k) # {}
                     /\ \A j \in ReturnedOnSpan(k) :
                           ret[j].text = Strip(call.asr[segments[k].start].text)

-----------------------------------------------------------------------------
(* The repetition condenser and FinalCleanup on texts that repeat a unit:  *)
(* the unit said a few times with 、 between, then the unit repeated back  *)
(* to back.  call keeps how the text was built.                            *)

MaxUnitLen == 2
MaxLead == 3
MaxUnitRepeats == 10
UnitChars == {"a", "me"}

RepetitionUnits == UNION {[1..n -> UnitChars] : n \in 1..MaxUnitLen}

\* the unit repeated reps times back to back
RepeatUnit(unit, reps) == Concat([k \in 1..reps |-> unit])

\* lead times the unit followed by 、, then the unit reps times back to back
RepetitionText(unit, lead, reps) ==
    RepeatUnit(unit \o <<"comma">>, lead) \o RepeatUnit(unit, reps)

RepetitionConfigs ==
    [has_model : {FALSE},
     phrase_filter : {[enable |-> FALSE, patterns |-> {}, enable_revalidate |-> FALSE]},
     consecutive_duplicates : {[enable |-> FALSE, min_occurrences |-> 4]},
     timing_validation : {[enable |-> FALSE, max_chars_per_second |-> 20,
                           enable_revalidate |-> FALSE]},
     final_cleanup : {[enable |-> TRUE]},
     stammer_filter : {[enable |-> TRUE]},
     vocalization_replacement : {DefaultVocalization},
     word_repetition : {DefaultWordRepetition},
     global_word_filter : {[enable |-> FALSE, min_occurrences |-> 12]},
     cluster_filter : {DefaultCluster},
     timing_realignment : {RealignOff}]

RepetitionInit ==
    /\ pc \in {"condense", "stage8"}
    /\ config \in RepetitionConfigs
    /\ \E unit \in RepetitionUnits, lead \in 0..MaxLead, reps \in 1..MaxUnitRepeats :
          /\ call = [unit |-> unit, lead |-> lead, reps |-> reps]
          /\ segments = <<Seg(0, 3 * TicksPerSecond, RepetitionText(unit, lead, reps), <<>>)>>
    /\ ret = None

\* condense_word_repetitions(text, config)
CallCondense ==
    /\ pc = "condense"
    /\ ret' = condense_word_repetitions(segments[1].text, config)
    /\ pc' = "condensed"
    /\ UNCHANGED <<config, segments, call>>

RepetitionNext == CallCondense \/ FinalCleanup

SpecRepetition == RepetitionInit /\ [][RepetitionNext]_vars

\* text holds a unit of at most max_len characters min_reps or more times
\* back to back
HasRun(text, min_reps, max_len) ==
    \E len \in 1..max_len, p \in 1..Len(text) :
        /\ p + len - 1 <= Len(text)
        /\ CountRepeats(text, p, len, p + len) >= min_reps - 1

\* C20: a text that is a unit of at most max_pattern_length characters
\* repeated min_repetitions or more times is condensed to
\* condensed_display_count instances of that unit followed by the ellipsis.
C20_RunCondensedToDisplayCount ==
    (/\ pc = "condensed"
     /\ call.lead = 0
     /\ call.reps >= config.word_repetition.min_repetitions
     /\ Len(call.unit) <= config.word_repetition.max_pattern_length)
        => ret = JoinWords(Rep(call.unit, config.word_repetition.condensed_display_count))
                   \o Ellipsis

\* C16: after FinalCleanup with the stammer filter enabled, no segment's text
\* holds a unit of at most max_pattern_length characters min_repetitions or
\* more times back to back.
C16_NoRunAfterFinalCleanup ==
    (pc = "done" /\ config.final_cleanup.enable /\ config.stammer_filter.enable)
        => \A k \in 1..Len(segments) :
              ~HasRun(segments[k].text, config.word_repetition.min_repetitions,
                      config.word_repetition.max_pattern_length)

-----------------------------------------------------------------------------
(* merge_single_char_segments on segments of one or two characters, back   *)
(* to back, each with or without words.  ret is the list it returns.       *)

MaxCharSegs == 4
CharTexts == {<<"a">>, <<"i">>, <<"a", "i">>}

\* segments of half a second each, back to back from zero
CharInputs ==
    UNION {{WithWords(BackToBack(texts, [k \in 1..n |-> Tenths(5)], 0), with_words) :
                texts \in [1..n -> CharTexts], with_words \in SUBSET (1..n)} :
           n \in 0..MaxCharSegs}

CharInit ==
    /\ pc = "merge_chars"
    /\ config = NoConfig
    /\ segments \in CharInputs
    /\ call = None
    /\ ret = None

\* merge_single_char_segments(segments)
CallMergeSingleChars ==
    /\ pc = "merge_chars"
    /\ ret' = merge_single_char_segments(segments)
    /\ pc' = "merge_chars_returned"
    /\ UNCHANGED <<config, segments, call>>

CharNext == CallMergeSingleChars

SpecSingleChar == CharInit /\ [][CharNext]_vars

\* segment k holds one character
IsSingleChar(k) == Len(Strip(segments[k].text)) = 1

\* segment k holds the one character that segment k - 1 holds
ContinuesSameChar(k) ==
    /\ k > 1
    /\ IsSingleChar(k) /\ IsSingleChar(k - 1)
    /\ Strip(segments[k].text) = Strip(segments[k - 1].text)

\* segment k is a one-character segment after another one
ContinuesAnyChar(k) == k > 1 /\ IsSingleChar(k) /\ IsSingleChar(k - 1)

\* the segments that open a maximal run of equal one-character segments or
\* stand alone
SameCharStarts == {k \in 1..Len(segments) : ~ContinuesSameChar(k)}

\* the last segment of the run that i opens
SameCharLast(i) ==
    CHOOSE j \in i..Len(segments) :
        /\ \A k \in (i + 1)..j : ContinuesSameChar(k)
        /\ j = Len(segments) \/ ~ContinuesSameChar(j + 1)

\* the place in the output of the run that i opens
OutputIndex(i) == Cardinality({k \in SameCharStarts : k <= i})

\* the segments that open a maximal run of one-character segments of any
\* characters, and the last segment of such a run
AnyCharStarts == {k \in 1..Len(segments) : IsSingleChar(k) /\ ~ContinuesAnyChar(k)}
AnyCharLast(i) ==
    CHOOSE j \in i..Len(segments) :
        /\ \A k \in (i + 1)..j : ContinuesAnyChar(k)
        /\ j = Len(segments) \/ ~ContinuesAnyChar(j + 1)

\* C21 as stated: every maximal run of two or more consecutive one-character
\* segments, whatever the characters, becomes one output segment whose text
\* is the characters joined by 、 and whose span runs from the first start to
\* the last end.
C21_AnyRunCollapsed ==
    pc = "merge_chars_returned" =>
        \A i \in AnyCharStarts :
            AnyCharLast(i) > i =>
                \E m \in 1..Len(ret) :
                    /\ ret[m].start = segments[i].start
                    /\ ret[m].end = segments[AnyCharLast(i)].end
                    /\ ret[m].text = JoinWords([k \in 1..(AnyCharLast(i) - i + 1) |->
                                                   Strip(segments[i + k - 1].text)])

\* C21: every maximal run of two or more consecutive one-character segments
\* holding the same character becomes one output segment whose text is the
\* character repeated and joined by 、 and whose span runs from the first
\* start to the last end; every other segment is passed through with its
\* span, its stripped text and its words; the output keeps the input order.
C21_SameCharRunCollapsed ==
    pc = "merge_chars_returned" =>
        /\ Len(ret) = Cardinality(SameCharStarts)
        /\ \A i \in SameCharStarts :
              LET j == SameCharLast(i)
                  out == ret[OutputIndex(i)]
              IN /\ out.start = segments[i].start
                 /\ out.end = segments[j].end
                 /\ out.text = JoinWords([k \in 1..(j - i + 1) |-> Strip(segments[i].text)])
                 /\ j = i => out.words = segments[i].words

\* a run of equal characters, a run of different characters and a longer
\* segment were given
C21_Witness ==
    /\ pc = "merge_chars_returned"
    /\ Len(ret) < Len(segments)
    /\ \E i \in SameCharStarts : SameCharLast(i) > i
    /\ \E i \in AnyCharStarts : AnyCharLast(i) > i /\ SameCharLast(i) = i
    /\ \E k \in 1..Len(segments) : ~IsSingleChar(k)

\* C30: the word list of every output segment holds the words of the input
\* segments merged into it and no others.
C30_WordsOfMergedSegmentsOnly ==
    pc = "merge_chars_returned" =>
        \A i \in SameCharStarts :
            OutputIndex(i) <= Len(ret) =>
                ret[OutputIndex(i)].words =
                    Concat([k \in 1..(SameCharLast(i) - i + 1) |-> segments[i + k - 1].words])

-----------------------------------------------------------------------------
(* FinalCleanup on segments that are a bare short token or a sentence,     *)
(* with the global word filter and the cluster filter switched on or off.  *)
(* call keeps the segments given to FinalCleanup.                          *)

MaxClusterSegs == 6
ClusterWindow == 5 * TicksPerSecond

\* segments of one second each whose starts are step apart
SpacedSegments(texts, step) ==
    [k \in 1..Len(texts) |-> Seg((k - 1) * step, (k - 1) * step + TicksPerSecond, texts[k], <<>>)]

ClusterInputs ==
    UNION {{SpacedSegments(texts, step) :
                texts \in [1..n -> {Token, Greeting}],
                step \in {TicksPerSecond, 3 * TicksPerSecond}} :
           n \in 1..MaxClusterSegs}

ClusterConfigs ==
    [has_model : {FALSE},
     phrase_filter : {[enable |-> FALSE, patterns |-> {}, enable_revalidate |-> FALSE]},
     consecutive_duplicates : {[enable |-> FALSE, min_occurrences |-> 4]},
     timing_validation : {[enable |-> FALSE, max_chars_per_second |-> 20,
                           enable_revalidate |-> FALSE]},
     final_cleanup : {[enable |-> TRUE]},
     stammer_filter : {[enable |-> TRUE]},
     vocalization_replacement : {DefaultVocalization},
     word_repetition : {DefaultWordRepetition},
     global_word_filter : [enable : BOOLEAN, min_occurrences : {3, 12}],
     cluster_filter : [enable : BOOLEAN, time_window : {ClusterWindow},
                       min_occurrences : {3, 6}],
     timing_realignment : {RealignOff}]

ClusterInit ==
    /\ pc = "stage8"
    /\ config \in ClusterConfigs
    /\ segments \in ClusterInputs
    /\ call = segments
    /\ ret = None

ClusterNext == FinalCleanup

SpecCluster == ClusterInit /\ [][ClusterNext]_vars

\* the segments given to FinalCleanup that are only repetitions of the word
C22_Occurrences(word) ==
    {k \in 1..Len(call) : IsShortWordSegment(call[k].text) /\ SegmentWords(call[k].text)[1] = word}

\* at least cluster min-occurrences of the word start within some window of
\* time_window ticks
C22_InWindow(word) ==
    \E from \in {call[k].start : k \in C22_Occurrences(word)} :
        Cardinality({k \in C22_Occurrences(word) :
                        /\ call[k].start >= from
                        /\ call[k].start <= from + config.cluster_filter.time_window})
            >= config.cluster_filter.min_occurrences

\* the word qualifies by its total count with the global filter enabled, or
\* by a cluster with the cluster filter enabled
C22_Qualifies(word) ==
    \/ /\ config.global_word_filter.enable
       /\ Cardinality(C22_Occurrences(word)) > config.global_word_filter.min_occurrences
    \/ /\ config.cluster_filter.enable
       /\ C22_InWindow(word)

\* C22: a short token that exceeds the global threshold, or that has the
\* cluster min-occurrences within one time window, is replaced by a
\* vocalization in every segment that is only its repetitions; either
\* condition alone is enough.
C22_QualifyingTokenReplaced ==
    (pc = "done" /\ Len(segments) = Len(call)) =>
        \A k \in 1..Len(call) :
            (/\ IsShortWordSegment(call[k].text)
             /\ C22_Qualifies(SegmentWords(call[k].text)[1]))
                => segments[k].text =
                      build_vocalization_replacement(
                          detect_vocalization_from_text(Strip(call[k].text), config),
                          call[k].end - call[k].start, config)

-----------------------------------------------------------------------------
(* The sliding-window search of verify_segment_timing_time_based after an  *)
(* initial verification below the threshold.  call keeps the segment, the  *)
(* initial similarity and what each window transcribes to; ret is the best *)
(* match the search ends with.                                             *)

SearchText == <<"a", "b", "c">>

\* a one-second segment near the start, in the middle and near the end of
\* the audio
SearchSegments ==
    {Seg(start, start + TicksPerSecond, SearchText, <<>>) :
        start \in {Tenths(2), Tenths(10), Tenths(30)}}

\* a window raises, hears something else, or hears the first one, two or
\* three characters of the text
SearchOutcomes ==
    {TranscribeRaised, TranscribeResult(Unrelated, <<>>)}
    \cup {TranscribeResult(Slice(SearchText, 1, n),
                           <<Word(Slice(SearchText, 1, n), Tenths(1), Tenths(9))>>) :
             n \in 1..Len(SearchText)}

\* initial similarities below the threshold: nothing heard, one character heard
SearchInitials == {<<0, 1>>, calculate_text_similarity(SearchText, <<"a">>)}

SearchConfigs ==
    [audio_duration : {AudioDuration},
     timing_realignment : [enable : {TRUE}, method : {"time_based"}, min_gap : {Tenths(1)},
                           time_based : TimeBasedOptions]]

SearchWindows(segment, cfg) ==
    shifted_starts(segment.start, expansion_values(cfg.timing_realignment.time_based))

SearchInit ==
    /\ pc = "search"
    /\ config \in SearchConfigs
    /\ segments = <<>>
    /\ \E segment \in SearchSegments, initial \in SearchInitials :
          \E trials \in [1..Len(SearchWindows(segment, config)) -> SearchOutcomes] :
              call = [segment |-> segment, initial_similarity |-> initial, trials |-> trials]
    /\ ret = None

\* the loop over expansion_values
CallSearch ==
    /\ pc = "search"
    /\ ret' = sliding_window_search(
                  call.segment, SearchWindows(call.segment, config), call.trials,
                  [similarity |-> call.initial_similarity, has_result |-> FALSE,
                   words |-> <<>>, start |-> call.segment.start, end |-> call.segment.end],
                  config.timing_realignment.time_based.similarity, config.audio_duration)
    /\ pc' = "searched"
    /\ UNCHANGED <<config, segments, call>>

SearchNext == CallSearch

SpecSearch == SearchInit /\ [][SearchNext]_vars

C23_Windows == SearchWindows(call.segment, config)

\* window k is long enough to be transcribed and its transcription succeeds
C23_Usable(k) ==
    /\ AudioSliceLen(C23_Windows[k],
                     C23_Windows[k] + (call.segment.end - call.segment.start),
                     config.audio_duration) >= MinAudioLen
    /\ ~call.trials[k].raised

C23_Similarity(k) == calculate_text_similarity(call.segment.text, Strip(call.trials[k].text))

\* the trial of window k meets the threshold
C23_Meets(k) ==
    /\ C23_Usable(k)
    /\ SimAtLeast(C23_Similarity(k), config.timing_realignment.time_based.similarity)

\* the last window tried: the first one that meets the threshold, else the
\* last window of all
C23_LastTrial ==
    IF \E k \in 1..Len(C23_Windows) : C23_Meets(k)
    THEN CHOOSE k \in 1..Len(C23_Windows) :
             C23_Meets(k) /\ \A j \in 1..(k - 1) : ~C23_Meets(j)
    ELSE Len(C23_Windows)

C23_Performed == {k \in 1..C23_LastTrial : C23_Usable(k)}

\* C23: the search ends with the first trial that meets the threshold or with
\* the last offset; the match it retains is a trial performed up to there (or
\* the original when no trial improved on it), and no trial performed up to
\* there is more similar than the retained match.
C23_StopsAtFirstMatchKeepsBest ==
    pc = "searched" =>
        /\ ret.has_result =>
              \E k \in C23_Performed :
                  /\ ret.start = C23_Windows[k]
                  /\ ret.similarity = C23_Similarity(k)
                  /\ ret.words = call.trials[k].words
        /\ ~ret.has_result => ret.similarity = call.initial_similarity
        /\ ~SimGreater(call.initial_similarity, ret.similarity)
        /\ \A k \in C23_Performed : ~SimGreater(C23_Similarity(k), ret.similarity)

\* the search stopped at a trial meeting the threshold although a later
\* window would have matched better
C23_Witness ==
    /\ pc = "searched"
    /\ ret.has_result
    /\ C23_LastTrial < Len(C23_Windows)
    /\ \E j \in (C23_LastTrial + 1)..Len(C23_Windows) :
          C23_Usable(j) /\ SimGreater(C23_Similarity(j), ret.similarity)

\* C24: no segment the Merger made out of two or more segments has a text
\* longer than max_line_length.
C24_MergedWithinMaxLineLength ==
    pc = "merged" =>
        \A g \in 1..Len(call) :
            Len(merge_groups(segments, config)[g]) >= 2
                => Len(call[g].text) <= config.max_line_length

\* the response is a well-formed JSON object of two or more pieces that pass
\* the content validation, for a segment whose timing is feasible
C25_AcceptableResponse ==
    /\ pc = "llm_split_done"
    /\ call.generate_calls = 1
    /\ call.response.kind = "json"
    /\ Len(call.response.polished) >= 2
    /\ validate_llm_segments(segments[1].text, call.response.polished).valid
    /\ ~timing_unrealistic(Len(Strip(segments[1].text)), segments[1].end - segments[1].start,
                           config.max_chars_per_second)

\* C25: with LLM splitting enabled and a provider available, a segment longer
\* than max_line_length whose response is well-formed and passes the content
\* validation and the timing check is replaced by the pieces of the response.
C25_ValidPiecesReplaceSegment ==
    C25_AcceptableResponse =>
        /\ Len(ret) = Len(call.response.polished)
        /\ \A k \in 1..Len(ret) : ret[k].text = call.response.polished[k]

\* C26: the phrase filter returns at most one segment for each segment it is
\* given: its output is not longer than its input and holds no two segments
\* with the same time span.
C26_AtMostOneOutputPerInput ==
    pc = "phrase_filter_returned" =>
        /\ Len(ret) <= Len(segments)
        /\ \A i, j \in 1..Len(ret) :
              (ret[i].start = ret[j].start /\ ret[i].end = ret[j].end) => i = j

\* C27: text polishing returns as many segments as it receives, in the same
\* order and with the same timing and words, whatever the LLM returned.
C27_PolishKeepsCountAndOrder ==
    pc = "polish_done" =>
        /\ Len(ret) = Len(segments)
        /\ \A k \in 1..Len(ret) :
              /\ ret[k].start = segments[k].start
              /\ ret[k].end = segments[k].end
              /\ ret[k].words = segments[k].words

\* polishing is over for two or more segments, and a batch got a well-formed
\* response with fewer or more texts than it has segments
C27_Witness ==
    /\ pc = "polish_done"
    /\ config.enable /\ create_llm_provider(config.provider) = "provider"
    /\ Len(segments) >= 2
    /\ call.miscounted

-----------------------------------------------------------------------------
(* TimingRealigner's frame (SpecRealign).                                  *)

\* the realigner returned; call.input is what it was given
C28_Returned == pc = "stage8"

\* C28: TimingRealigner, with either method and with the overlap post-pass,
\* returns as many segments as it receives and the i-th returned segment has
\* the text of the i-th received segment.
C28_SameCountSameTexts ==
    C28_Returned =>
        /\ Len(segments) = Len(call.input)
        /\ \A i \in 1..Len(call.input) : segments[i].text = call.input[i].text

\* the realigner returned after the post-pass fixed an overlapping pair and
\* a segment no longer has the timing it came with
C28_Witness ==
    /\ C28_Returned
    /\ call.p > 1
    /\ \E i \in 1..Len(call.input) :
          segments[i].start # call.input[i].start \/ segments[i].end # call.input[i].end

\* the text-search method returned with a segment moved
C28_TextSearchMoved ==
    /\ C28_Returned
    /\ realign_method(config) = "text_search"
    /\ \E i \in 1..Len(call.input) :
          segments[i].start # call.input[i].start \/ segments[i].end # call.input[i].end

-----------------------------------------------------------------------------
(* The timing validator on segments of any duration, a zero duration       *)
(* included.  call keeps what the spans transcribed to and ret the         *)
(* segments the validator returned.                                        *)

MaxTimedSegs == 2

\* a text long enough to be too slow
LongText == <<"a", "b", "c", "d", "e", "f">>
TimedTexts == {Greeting, LongText}

\* no duration, a tenth of a second (too fast), a second, eight seconds (too
\* slow for the long text)
TimedDurations == {0, Tenths(1), Tenths(10), Tenths(80)}

RECURSIVE TimedInputsFrom(_, _)
\* back-to-back segments from start, with or without words
TimedInputsFrom(n, start) ==
    IF n = 0 THEN {<<>>}
    ELSE UNION {{<<Seg(start, start + d, text, words)>> \o rest :
                    words \in WordOptions(text, start, start + d),
                    rest \in TimedInputsFrom(n - 1, start + d)} :
                <<text, d>> \in TimedTexts \X TimedDurations}

TimedInputs == UNION {TimedInputsFrom(n, 0) : n \in 0..MaxTimedSegs}

TimedInit ==
    /\ pc = "validate_timing"
    /\ config \in RevalidateConfigs
    /\ segments \in TimedInputs
    /\ call = None
    /\ ret = None

\* validate_segment_timing(segments, config, model, media_path)
CallValidateTiming ==
    /\ pc = "validate_timing"
    /\ \E asr \in AsrChoices(segments, config, AsrTexts) :
          /\ call' = [asr |-> asr]
          /\ ret' = validate_segment_timing(segments, config, config.has_model, asr)
    /\ pc' = "timing_validated"
    /\ UNCHANGED <<config, segments>>

TimedNext == CallValidateTiming

SpecTimingFrame == TimedInit /\ [][TimedNext]_vars

\* the segment has more characters per second than max_chars_per_second, or
\* fewer than one with more than five characters; a segment of no duration
\* has no rate and is not flagged
C29_Flagged(seg) ==
    /\ seg.end > seg.start
    /\ \/ Len(seg.text) * TicksPerSecond
             > config.timing_validation.max_chars_per_second * (seg.end - seg.start)
       \/ /\ Len(seg.text) * TicksPerSecond < SlowCharsPerSecond * (seg.end - seg.start)
          /\ Len(seg.text) > SlowMinChars

RECURSIVE C29_InOrderWithin(_, _)
\* the segments of kept are in out, in the order of kept
C29_InOrderWithin(kept, out) ==
    IF kept = <<>> THEN TRUE
    ELSE IF out = <<>> THEN FALSE
    ELSE IF Head(out) = Head(kept) THEN C29_InOrderWithin(Tail(kept), Tail(out))
    ELSE C29_InOrderWithin(kept, Tail(out))

\* C29: every segment the timing validator does not flag as too fast or too
\* slow, a segment of zero duration included, is in its output unchanged and
\* in its original relative order.
C29_UnflaggedKeptInOrder ==
    pc = "timing_validated" =>
        C29_InOrderWithin(SelectSeq(segments, LAMBDA seg : ~C29_Flagged(seg)), ret)

\* the same for the unflagged segments that have a duration
C29_UnflaggedTimedKeptInOrder ==
    pc = "timing_validated" =>
        C29_InOrderWithin(
            SelectSeq(segments, LAMBDA seg : seg.end > seg.start /\ ~C29_Flagged(seg)), ret)

\* the validator returned from segments of which one is flagged and one has
\* a duration and is not flagged
C29_MixedInput ==
    /\ pc = "timing_validated"
    /\ \E k \in 1..Len(segments) : C29_Flagged(segments[k])
    /\ \E k \in 1..Len(segments) :
          segments[k].end > segments[k].start /\ ~C29_Flagged(segments[k])

=============================================================================
